---- MODULE Spec2Model ----
(***************************************************************************)
(* Admission control of the "secure zone" page: the per-device cooldown    *)
(* ledger (api/check-device-cooldown and the Supabase edge function of the *)
(* same name, over the device_submissions table) and the page component    *)
(* that consults it (SecurePage, server-backed variant).                   *)
(*                                                                         *)
(* Time is one clock in milliseconds, read by Date.now() in the handlers   *)
(* and by now() in the database.  A handler is split at its awaits: the    *)
(* threshold is computed when the request is received, the select and the  *)
(* insert complete in later steps, and the clock may advance in between.   *)
(***************************************************************************)
EXTENDS Integers, FiniteSets, Sequences, TLC

\* ------------------------------------------------------------------ bounds
MaxFine == 1
MaxRecords == 2
MaxReruns == 1

\* --------------------------------------------------------------- constants
COOLDOWN_MINUTES == 30
CooldownMs == COOLDOWN_MINUTES * 60 * 1000
RetentionTooShort == 60 * 1000
RetentionMs == 60 * 60 * 1000

\* The instants at which something may happen: the start, the end of a
\* cooldown window and the end of the retention window, each followed by up to
\* MaxFine single milliseconds.
Instants == {c + f : c \in {0, CooldownMs, RetentionMs}, f \in 0..MaxFine}

Devices == {"d1", "d2"}
\* An optional JSON field: <<>> when absent, <<v>> when present with value v.
Absent == <<>>
\* null where a time is expected; it lies below every time of the clock.
None == 0 - 1

\* clock: the time; ledger: the rows of device_submissions; req: the requests
\* in flight, by connection; resp: the response being sent, NoReq when none is;
\* lastCheck: the cooldown result a `check` reported last (kept by SpecPoll);
\* page: the state of the SecurePage component; init: the initializeAndCheck
\* call of the current page load; browser: what outlives the component (the
\* URL, the fingerprint cache, local storage, the session marker); form: the
\* form of the page and its handleSubmit call; poll: the remote poll of the
\* countdown effect; sink: the request at the notification endpoint; stale:
\* an initializeAndCheck call that is still running although its effect has
\* been run again or its component is gone; guard: the state of a CooldownGuard
\* component and its timers; form2: a handleSubmit call started by a second
\* submit event while the first call was still waiting for its check; gate:
\* the PasswordGate component and what it keeps in sessionStorage.
VARIABLES clock, ledger, req, resp, lastCheck, page, init, browser, form, poll, sink,
          stale, guard, form2, gate

vars == <<clock, ledger, req, resp, lastCheck, page, init, browser, form, poll, sink,
          stale, guard, form2, gate>>
serverVars == <<clock, ledger, req, resp>>
formVars == <<form, poll, sink>>
pageVars == <<page, init, browser, form, poll, sink, stale, guard, form2, gate>>

\* ----------------------------------------------------------- record store
\* device_submissions: id, device_id, submitted_at DEFAULT now(), name,
\* user_id_field.
RecordsOf(d) == {rec \in ledger : rec.device_id = d}

\* id tells apart rows that agree on every other column (gen_random_uuid());
\* nothing reads it, so it counts such rows instead of naming them at random.
FreshId(d, now) ==
    1 + Cardinality({rec \in ledger : rec.device_id = d /\ rec.submitted_at = now})

\* .eq('device_id', d).gte('submitted_at', threshold)
MatchingNoDeviceFilter(d, threshold) == {rec \in ledger : rec.submitted_at >= threshold}
Matching(d, threshold) == {rec \in ledger : rec.device_id = d /\ rec.submitted_at >= threshold}

\* .order('submitted_at', {ascending: false}).limit(1): the possible results
CheckRows(d, threshold) ==
    LET m == Matching(d, threshold)
    IN  IF m = {} THEN {<<>>}
        ELSE {<<rec>> : rec \in {x \in m : \A y \in m : y.submitted_at <= x.submitted_at}}

\* .limit(1) without an order: any matching row
PreSubmitRows(d, threshold) ==
    LET m == Matching(d, threshold)
    IN  IF m = {} THEN {<<>>} ELSE {<<rec>> : rec \in m}

\* (lastSubmission.getTime() + COOLDOWN_MINUTES * 60 * 1000) - Date.now()
RemainingElapsed(submitted_at, now) == now - submitted_at
Remaining(submitted_at, now) == (submitted_at + COOLDOWN_MINUTES * 60 * 1000) - now

\* Date.now() - COOLDOWN_MINUTES * 60 * 1000
ThresholdStrict(now) == now - COOLDOWN_MINUTES * 60 * 1000 + 1
ThresholdLate(now) == now - COOLDOWN_MINUTES * 60 * 1000 - 1
Threshold(now) == now - COOLDOWN_MINUTES * 60 * 1000

\* --------------------------------------------------------------- requests
NoBody == [success |-> Absent, inCooldown |-> Absent, remaining |-> Absent,
           cooldownUntil |-> Absent, error |-> Absent]

\* History kept with a request: what the ledger held for the device when the
\* request was received and when it was answered.
NoHist == [at0 |-> None, latest0 |-> None, count0 |-> 0, count1 |-> 0, alone |-> TRUE,
           storeError |-> "none"]

NoReq == [pc |-> "idle", impl |-> "none", method |-> "none", env |-> TRUE,
          device_id |-> "", action |-> "none", name |-> "", user_id_field |-> "",
          cooldownThreshold |-> 0, status |-> 0, body |-> NoBody, at |-> None,
          h |-> NoHist]

\* A request as it reaches an endpoint: the implementation it reaches, whether
\* that deployment has its SUPABASE_* variables, and the parsed JSON body.
Request(impl, method, env, device_id, action, name, user_id_field) ==
    [impl |-> impl, method |-> method, env |-> env, device_id |-> device_id,
     action |-> action, name |-> name, user_id_field |-> user_id_field]

Impls == {"vercel", "edge"}

\* The form fields a device submits: one leaves the name empty, the other the
\* user id.
PayloadOf(d) == IF d = "d1" THEN <<"", "7">> ELSE <<"ali", "">>

WellFormed ==
    {Request(i, "POST", TRUE, d, "check", "", "") : i \in Impls, d \in Devices}
    \cup {Request(i, "POST", TRUE, d, "submit", PayloadOf(d)[1], PayloadOf(d)[2]) :
             i \in Impls, d \in Devices}

Malformed ==
    {Request(i, m, TRUE, "d1", "check", "", "") : i \in Impls, m \in {"OPTIONS", "GET"}}
    \cup {Request(i, "POST", FALSE, "d1", "check", "", "") : i \in Impls}
    \cup {Request(i, "POST", TRUE, "", a, "", "") : i \in Impls, a \in {"check", "submit"}}
    \cup {Request(i, "POST", TRUE, "d1", "bogus", "", "") : i \in Impls}

Requests == WellFormed \cup Malformed

Slots == DOMAIN req

Respond(r, status, body) ==
    [req[r] EXCEPT !.pc = "done", !.status = status, !.body = body, !.at = clock,
                   !.h.count1 = Cardinality(RecordsOf(req[r].device_id))]

\* Every other request in flight has seen the ledger change under it.
Disturb(rq, r) ==
    [s \in Slots |-> IF s # r /\ rq[s].pc \in {"querying", "prechecking", "inserting"}
                     THEN [rq[s] EXCEPT !.h.alone = FALSE] ELSE rq[s]]

\* submitted_at of the device's most recent record, None without one
Latest(d) ==
    IF RecordsOf(d) = {} THEN None
    ELSE CHOOSE t \in {rec.submitted_at : rec \in RecordsOf(d)} :
             \A rec \in RecordsOf(d) : rec.submitted_at <= t

HistAtReceive(d) ==
    [at0 |-> clock, latest0 |-> Latest(d), count0 |-> Cardinality(RecordsOf(d)), count1 |-> 0,
     alone |-> TRUE, storeError |-> "none"]

\* ------------------------------------------------- the cooldown endpoint
Err(msg) == [NoBody EXCEPT !.success = <<FALSE>>, !.error = <<msg>>]

Accept(r, rq) ==
    [NoReq EXCEPT !.impl = rq.impl, !.method = rq.method, !.env = rq.env,
                  !.device_id = rq.device_id, !.action = rq.action,
                  !.name = rq.name, !.user_id_field = rq.user_id_field,
                  !.h = HistAtReceive(rq.device_id)]

\* The synchronous prefix of the handler, up to its first await on the store.
\* vercel: part_001 lines 19-57 and the dispatch on action; edge: index.ts
\* lines 18-38, where every rejection is a throw caught at line 149.
HandlerPrefix(a) ==
    IF a.method = "OPTIONS" THEN [a EXCEPT !.pc = "done", !.at = clock, !.status = 200]
    ELSE IF a.impl = "vercel" /\ a.method # "POST"
        THEN [a EXCEPT !.pc = "done", !.at = clock, !.status = 405, !.body = Err("Method not allowed")]
    ELSE IF ~a.env
        THEN [a EXCEPT !.pc = "done", !.at = clock, !.status = 500, !.body = Err("configuration")]
    ELSE IF a.impl = "edge" /\ a.method # "POST"
        THEN [a EXCEPT !.pc = "done", !.at = clock, !.status = 500, !.body = Err("Unexpected end of JSON input")]
    ELSE IF a.device_id = ""
        THEN [a EXCEPT !.pc = "done", !.at = clock, !.status = IF a.impl = "vercel" THEN 400 ELSE 500,
                       !.body = Err("Device ID is required")]
    ELSE IF a.action = "check"
        THEN [a EXCEPT !.pc = "querying", !.cooldownThreshold = Threshold(clock)]
    ELSE IF a.action = "submit"
        THEN [a EXCEPT !.pc = "prechecking", !.cooldownThreshold = Threshold(clock)]
    ELSE [a EXCEPT !.pc = "done", !.at = clock, !.status = IF a.impl = "vercel" THEN 400 ELSE 500,
                   !.body = Err("Invalid action")]

\* The connections the page holds, one for the call of the current effect run
\* and one for a call that has outlived its run; the others belong to clients
\* not modelled.
PageSlots == {"page", "stale"}
\* The connections of the components of the application: the page's, the one
\* of a CooldownGuard and the one of a second handleSubmit call.
ClientSlots == PageSlots \cup {"guard", "second"}

\* A response is on its way to the client: on a connection of the page it
\* waits there for the page's fetch to resolve, otherwise the connection is
\* free again.
FinishIn(rq, r, response) ==
    IF r \in ClientSlots
    THEN req' = [rq EXCEPT ![r] = response] /\ UNCHANGED resp
    ELSE req' = [rq EXCEPT ![r] = NoReq] /\ resp' = response

Finish(r, response) == FinishIn(req, r, response)

Receive(r, rq) ==
    LET a == HandlerPrefix(Accept(r, rq))
    IN  /\ IF a.pc = "done" THEN Finish(r, a)
           ELSE req' = [req EXCEPT ![r] = a] /\ UNCHANGED resp
        /\ UNCHANGED <<clock, ledger>>

\* action === 'check': the select completes
CheckBody(rows, now) ==
    IF Len(rows) > 0
    THEN [NoBody EXCEPT !.inCooldown = <<TRUE>>,
                        !.remaining = <<Remaining(rows[1].submitted_at, now)>>]
    ELSE [NoBody EXCEPT !.inCooldown = <<FALSE>>, !.remaining = <<0>>]

\* if (error) / if (checkError) / if (insertError): the answer to a request
\* whose store call returned an error; `on` is the call that failed.
StoreErrorAccepted(r, on) ==
    [Respond(r, 200, [NoBody EXCEPT !.success = <<TRUE>>,
                                   !.cooldownUntil = <<clock + COOLDOWN_MINUTES * 60 * 1000>>])
        EXCEPT !.h.storeError = on]
StoreError(r, on) == [Respond(r, 500, Err("store")) EXCEPT !.h.storeError = on]

\* The check branch sends the store one select and nothing else.
LedgerAfterCheckPurged(d) == ledger \ RecordsOf(d)
LedgerAfterCheck(d) == ledger

CheckQuery(r) ==
    /\ resp = NoReq
    /\ req[r].pc = "querying"
    /\ \E error \in BOOLEAN :
         IF error
         THEN Finish(r, StoreError(r, "check"))
         ELSE \E rows \in CheckRows(req[r].device_id, req[r].cooldownThreshold) :
                  Finish(r, Respond(r, 200, CheckBody(rows, clock)))
    /\ ledger' = LedgerAfterCheck(req[r].device_id)
    /\ UNCHANGED clock

\* action === 'submit': the pre-submit select completes
BlockedBody(rows, now) ==
    [NoBody EXCEPT !.success = <<FALSE>>, !.inCooldown = <<TRUE>>,
                   !.remaining = <<Remaining(rows[1].submitted_at, now)>>]

PreSubmitQuery(r) ==
    /\ resp = NoReq
    /\ req[r].pc = "prechecking"
    /\ \E checkError \in BOOLEAN :
         IF checkError
         THEN Finish(r, StoreError(r, "pre-submit"))
         ELSE \E existingSubmissions \in PreSubmitRows(req[r].device_id, req[r].cooldownThreshold) :
                  IF Len(existingSubmissions) > 0
                  THEN Finish(r, Respond(r, 403, BlockedBody(existingSubmissions, clock)))
                  ELSE req' = [req EXCEPT ![r].pc = "inserting"] /\ UNCHANGED resp
    /\ UNCHANGED <<clock, ledger>>

\* name || null, user_id_field || null; id and submitted_at by their defaults
NewRecord(r) ==
    [id |-> FreshId(req[r].device_id, clock), device_id |-> req[r].device_id, submitted_at |-> clock,
     name |-> IF req[r].name = "" THEN "null" ELSE req[r].name,
     user_id_field |-> IF req[r].user_id_field = "" THEN "null" ELSE req[r].user_id_field]

AcceptedBody(now) ==
    [NoBody EXCEPT !.success = <<TRUE>>, !.cooldownUntil = <<now + COOLDOWN_MINUTES * 60 * 1000>>]

\* .insert({device_id, name, user_id_field}): the table with the new row
LedgerAfterUpsert(r) == (ledger \ RecordsOf(req[r].device_id)) \cup {NewRecord(r)}
LedgerAfterInsertIfClear(r) ==
    IF Matching(req[r].device_id, Threshold(clock)) = {}
    THEN ledger \cup {NewRecord(r)} ELSE ledger
LedgerAfterInsert(r) == ledger \cup {NewRecord(r)}

\* the insert completes
Insert(r) ==
    /\ resp = NoReq
    /\ req[r].pc = "inserting"
    /\ \E insertError \in BOOLEAN :
         IF insertError
         THEN Finish(r, StoreError(r, "insert")) /\ UNCHANGED ledger
         ELSE /\ ledger' = LedgerAfterInsert(r)
              /\ FinishIn(Disturb(req, r), r,
                          [Respond(r, 200, AcceptedBody(clock)) EXCEPT
                              !.h.count1 = Cardinality(RecordsOf(req[r].device_id)) + 1])
    /\ UNCHANGED clock

\* cleanup_old_submissions(): DELETE ... WHERE submitted_at < NOW() - INTERVAL '1 hour'
Expired(now) == {rec \in ledger : rec.submitted_at < now - RetentionMs}

Cleanup ==
    /\ resp = NoReq
    /\ Expired(clock) # {}
    /\ ledger' = ledger \ Expired(clock)
    /\ req' = Disturb(req, "none")
    /\ UNCHANGED <<clock, resp>>

Advance ==
    /\ resp = NoReq
    /\ \E t \in Instants : t > clock /\ clock' = t
    /\ UNCHANGED <<ledger, req, resp>>

\* ------------------------------------------- the ledger under any clients
InFlightSubmits == {s \in Slots : req[s].pc \in {"prechecking", "inserting"}}

Arrive(r) ==
    /\ resp = NoReq
    /\ req[r].pc = "idle"
    /\ \E rq \in Requests :
         /\ rq.impl = r
         /\ rq.action = "submit" =>
                Cardinality(ledger) + Cardinality(InFlightSubmits) < MaxRecords
         /\ Receive(r, rq)

\* the response has left
Sent ==
    /\ resp # NoReq
    /\ resp' = NoReq
    /\ UNCHANGED <<clock, ledger, req>>

\* one connection to each deployment of the endpoint
LedgerSlots == Impls

NoCheck == [device_id |-> "", remaining |-> 0]

\* useState('checking'), useState(''), useState(0), useState('')
FreshPage == [accessState |-> "checking", validationMessage |-> "",
              cooldownRemaining |-> 0, deviceId |-> ""]

NoCalls == [hasValidSession |-> FALSE, validateToken |-> FALSE, storeSessionToken |-> 0]

\* initializeAndCheck as the init effect starts it: about to await the
\* fingerprint; calls counts what this page load has called so far.
FreshInit == [pc |-> "fingerprint", id |-> "", due |-> None, calls |-> NoCalls]

\* localStorage 'form-submission-cooldown': kind "none" when the key is not
\* set, "empty" for the empty string, "nan" for a text parseInt gives NaN
\* for, "num" for the decimal text of `time`, "throws" when every access to
\* localStorage throws.
NoMarker == [kind |-> "none", time |-> None]

FreshBrowser(token) == [token |-> token, cachedVisitorId |-> "", storedId |-> "",
                        session |-> FALSE, marker |-> NoMarker]

\* How the last ledger `submit` of the form ended: the status and the success
\* field of the response, status 0 when the fetch threw; nothing before.
NoAnswer == [status |-> None, success |-> Absent]

\* useState(false) of isSubmitting and isSubmitted, no handleSubmit running.
\* filled: none of the four fields was blank when the form was submitted;
\* answer: how the last ledger `submit` ended; sinkRequests: the requests this
\* page has sent to /api/send-to-telegram.
FreshForm == [pc |-> "idle", isSubmitting |-> FALSE, isSubmitted |-> FALSE,
              filled |-> FALSE, answer |-> NoAnswer, sinkRequests |-> 0]

\* The countdown effect has set no interval. due is the next firing of the
\* remote poll, tick the next firing of localTimer.
FreshPoll == [pc |-> "off", due |-> None, tick |-> None]

\* No request at the notification endpoint.
NoSink == [pc |-> "idle", impl |-> "none", method |-> "none",
           TELEGRAM_BOT_TOKEN |-> FALSE, TELEGRAM_CHAT_ID |-> FALSE,
           hasBody |-> FALSE, fields |-> {}, status |-> 0, success |-> Absent,
           error |-> FALSE, calls |-> 0, downstream |-> "none"]

\* No CooldownGuard is rendered. Of one that is: pc is "mount" while the check
\* of its mount effect is in flight and "check" while the one of its server
\* interval is; isChecking, inCooldown, cooldownRemaining and deviceId are its
\* useState values; serverDue and localDue are the next firings of the two
\* intervals of its countdown effect, None when they are not set.
NoGuard == [pc |-> "off", isChecking |-> FALSE, inCooldown |-> FALSE,
            cooldownRemaining |-> 0, deviceId |-> "", serverDue |-> None,
            localDue |-> None]

\* No setTimeout of PasswordGate.handleSubmit is pending. Of one that is: when
\* it is due and the password and attempts its callback closed over.
NoGateTimer == [due |-> None, password |-> "", attempts |-> 0]

\* No PasswordGate is rendered. Of one that is: screen is what its last
\* render returned; password, isLoading and attempts are its useState values;
\* lockout and adminAuth are the sessionStorage items 'lockout' (None when
\* not set) and 'admin-auth'; wrongRun counts the wrong submissions this tab
\* has seen in a row, up to three.
NoGate == [screen |-> "off", password |-> "", isLoading |-> FALSE, attempts |-> 0,
           timer |-> NoGateTimer, lockout |-> None, adminAuth |-> FALSE,
           wrongRun |-> 0]

\* No second handleSubmit call. Of one: where it stands, whether the fields
\* it read were all filled, and how its ledger `submit` ended.
NoSecond == [pc |-> "idle", filled |-> FALSE, answer |-> NoAnswer]

\* No call outlives its effect run. Of one that does: where it stands, the
\* device id and the token it closed over, when its timeout is due, and
\* whether its component is still mounted; reruns counts the effect runs and
\* teardowns that ended a run so far.
NoStale == [pc |-> "none", id |-> "", token |-> "", due |-> None, mounted |-> FALSE,
            reruns |-> 0]

InitLedger ==
    /\ clock = 0
    /\ ledger = {}
    /\ req = [r \in LedgerSlots |-> NoReq]
    /\ resp = NoReq
    /\ lastCheck = NoCheck
    /\ page = FreshPage
    /\ init = [FreshInit EXCEPT !.pc = "none"]
    /\ browser = FreshBrowser("")
    /\ form = FreshForm
    /\ poll = FreshPoll
    /\ sink = NoSink
    /\ stale = NoStale
    /\ guard = NoGuard
    /\ form2 = NoSecond
    /\ gate = NoGate

NextLedger ==
    \/ \E r \in Slots : Arrive(r) /\ UNCHANGED <<lastCheck, pageVars>>
    \/ \E r \in Slots : CheckQuery(r) /\ UNCHANGED <<lastCheck, pageVars>>
    \/ \E r \in Slots : PreSubmitQuery(r) /\ UNCHANGED <<lastCheck, pageVars>>
    \/ \E r \in Slots : Insert(r) /\ UNCHANGED <<lastCheck, pageVars>>
    \/ Cleanup /\ UNCHANGED <<lastCheck, pageVars>>
    \/ Advance /\ UNCHANGED <<lastCheck, pageVars>>
    \/ Sent /\ UNCHANGED <<lastCheck, pageVars>>

SpecLedger == InitLedger /\ [][NextLedger]_vars

\* ------------------------------------------------ the ledger's responses
\* The response being sent answers a well-formed request for action a: the
\* handler got past its input checks and asked the store.
Answers(a) ==
    /\ resp.pc = "done" /\ resp.action = a /\ resp.method = "POST"
    /\ resp.env /\ resp.device_id \in Devices

\* ... and the store answered every query the handler made.
StoreAnswered == resp.body.error = Absent

\* When the request was received the device had a record inside the window.
InWindowAtReceive ==
    resp.h.latest0 # None /\ resp.h.latest0 >= resp.h.at0 - CooldownMs

\* C32: a submit is rejected with 403 exactly when a check with the same
\* threshold finds a record of the device, and the `remaining` of the
\* rejection is the one such a check reports at the same instant, computed
\* from the most recent record in the window, however many records the
\* device has there.
C32_SubmitSameRuleAsCheck ==
    (Answers("submit") /\ StoreAnswered /\ resp.status = 403) =>
        \A rows \in CheckRows(resp.device_id, resp.cooldownThreshold) :
            /\ CheckBody(rows, resp.at).inCooldown = resp.body.inCooldown
            /\ CheckBody(rows, resp.at).remaining = resp.body.remaining

\* The rejection half alone: a 403 for a submit means a check with the same
\* threshold reports inCooldown=true.
SubmitRejectsWhenCheckBlocks ==
    (Answers("submit") /\ StoreAnswered /\ resp.status = 403) =>
        \A rows \in CheckRows(resp.device_id, resp.cooldownThreshold) :
            CheckBody(rows, resp.at).inCooldown = <<TRUE>>

\* C1: a submit for a device that has a record with submitted_at >= now -
\* cooldownDuration when it is received, handled with no other write to the
\* ledger in between, returns success=false and leaves the device's number of
\* records unchanged; the store having answered the pre-submit query, the
\* response is 403 with inCooldown=true.
C1_BlockedSubmitAddsNothing ==
    (Answers("submit") /\ resp.h.alone /\ InWindowAtReceive) =>
        /\ resp.body.success = <<FALSE>>
        /\ resp.h.count1 = resp.h.count0
        /\ StoreAnswered => (resp.status = 403 /\ resp.body.inCooldown = <<TRUE>>)

C1_Witness ==
    /\ Answers("submit") /\ resp.h.alone /\ InWindowAtReceive
    /\ resp.status = 403 /\ resp.h.count0 > 0

\* C2: a check answered less than one cooldown window after the device's
\* latest successful submit (the record that submit inserted) reports
\* inCooldown=true with 0 < remaining <= cooldownDuration.
C2_CheckAfterSubmit ==
    (Answers("check") /\ StoreAnswered /\ resp.h.latest0 # None
        /\ resp.at - resp.h.latest0 < CooldownMs) =>
        /\ resp.status = 200
        /\ resp.body.inCooldown = <<TRUE>>
        /\ resp.body.remaining[1] > 0
        /\ resp.body.remaining[1] <= 1800000

C2_Witness ==
    /\ Answers("check") /\ StoreAnswered /\ resp.h.latest0 # None
    /\ resp.at - resp.h.latest0 < CooldownMs
    /\ resp.body.inCooldown = <<TRUE>> /\ resp.body.remaining[1] < 1800000

C4_NoRecordNoCooldown ==
    (Answers("check") /\ StoreAnswered /\ resp.h.count1 = 0) =>
        /\ resp.status = 200
        /\ resp.body.inCooldown = <<FALSE>>
        /\ resp.body.remaining = <<0>>

C4_Witness ==
    /\ Answers("check") /\ StoreAnswered /\ resp.h.count1 = 0
    /\ \E rec \in ledger : rec.device_id # resp.device_id
                           /\ rec.submitted_at >= resp.cooldownThreshold

\* ------------------------------------------------- one device, polled
\* A client that keeps asking about one device: the requests are the
\* well-formed ones for that device, and the cooldown result a check reported
\* last is remembered until a submit for the device is accepted.
PolledDevice == "d1"

ArrivePolled(r) ==
    /\ resp = NoReq
    /\ req[r].pc = "idle"
    /\ \E rq \in WellFormed :
         /\ rq.impl = r
         /\ rq.device_id = PolledDevice
         /\ rq.action = "submit" =>
                Cardinality(ledger) + Cardinality(InFlightSubmits) < MaxRecords
         /\ Receive(r, rq)

Remember ==
    IF resp.action = "check" /\ resp.status = 200
    THEN [device_id |-> resp.device_id, remaining |-> resp.body.remaining[1]]
    ELSE IF resp.action = "submit" /\ resp.status = 200 THEN NoCheck
    ELSE lastCheck

NextPoll ==
    \/ \E r \in Slots : ArrivePolled(r) /\ UNCHANGED <<lastCheck, pageVars>>
    \/ \E r \in Slots : CheckQuery(r) /\ UNCHANGED <<lastCheck, pageVars>>
    \/ \E r \in Slots : PreSubmitQuery(r) /\ UNCHANGED <<lastCheck, pageVars>>
    \/ \E r \in Slots : Insert(r) /\ UNCHANGED <<lastCheck, pageVars>>
    \/ Cleanup /\ UNCHANGED <<lastCheck, pageVars>>
    \/ Advance /\ UNCHANGED <<lastCheck, pageVars>>
    \/ Sent /\ lastCheck' = Remember /\ UNCHANGED pageVars

SpecPoll == InitLedger /\ [][NextPoll]_vars

\* C5: over the checks for a device, in the order they are answered and with
\* no submit accepted for it in between, the reported remaining never
\* increases; and it is 0 for every check received at or after submitted_at +
\* cooldownDuration of the device's most recent record.
C5_RemainingNeverIncreases ==
    (Answers("check") /\ resp.status = 200) =>
        /\ lastCheck.device_id = resp.device_id =>
               resp.body.remaining[1] <= lastCheck.remaining
        /\ (resp.h.alone /\ resp.h.latest0 # None
                /\ resp.h.at0 >= resp.h.latest0 + CooldownMs) =>
               resp.body.remaining = <<0>>

\* C6: every remaining a check or a blocked submit reports is >= 0.
C6_RemainingNonNegative ==
    (resp.pc = "done" /\ resp.body.remaining # Absent) => resp.body.remaining[1] >= 0

\* ------------------------------------------- errors and frame of the ledger
\* C18 as stated: a POST to a configured cooldown endpoint with a missing or
\* empty device_id is answered 400 by either implementation, for both
\* actions.
C18_MissingDeviceIdIs400 ==
    (resp.pc = "done" /\ resp.method = "POST" /\ resp.env /\ resp.device_id = "") =>
        /\ resp.status = 400
        /\ resp.h.storeError = "none"

\* C19: when the store returns an error on the check select, the pre-submit
\* select or the insert, the answer is 500 with success=false and an error,
\* it carries no cooldownUntil, and with no other write in between the
\* device has as many records as before.
C19_StoreErrorIs500 ==
    (resp.pc = "done" /\ resp.h.storeError # "none") =>
        /\ resp.status = 500
        /\ resp.body.success = <<FALSE>>
        /\ resp.body.error # Absent
        /\ resp.body.cooldownUntil = Absent
        /\ resp.h.alone => resp.h.count1 = resp.h.count0

\* A submit whose insert failed, answered 500.
C19_Witness ==
    /\ resp.pc = "done"
    /\ resp.action = "submit"
    /\ resp.h.storeError = "insert"
    /\ resp.status = 500

\* The steps of a check request: the handler takes it up, or answers it.
CheckStep ==
    \/ \E r \in Slots : req[r].pc # "querying" /\ req'[r].pc = "querying"
    \/ \E r \in Slots : req[r].pc = "querying" /\ req'[r].pc # "querying"
    \/ resp = NoReq /\ resp'.pc = "done" /\ resp'.action = "check"

\* C20: handling a check leaves the ledger as it was, for every ledger and
\* every device, whether the check is answered, fails or is rejected.
C20_CheckIsReadOnly == [][CheckStep => ledger' = ledger]_vars

\* A check answered for a device with a record, the record still there.
C20_Witness ==
    /\ resp.pc = "done"
    /\ resp.action = "check"
    /\ resp.status = 200
    /\ resp.h.count0 = 1
    /\ Cardinality(RecordsOf(resp.device_id)) = 1

\* ------------------------------------- the table under well-formed requests
\* The times the table is followed at: a first submit, the first instant at
\* which its record is outside the cooldown window, and the first instant at
\* which the cleanup deletes it.
StoreInstants == {0, CooldownMs + 1, RetentionMs + 1}

ArriveStore(r) ==
    /\ resp = NoReq
    /\ req[r].pc = "idle"
    /\ \E rq \in WellFormed :
         /\ rq.impl = r
         /\ rq.action = "submit" =>
                Cardinality(ledger) + Cardinality(InFlightSubmits) < MaxRecords
         /\ Receive(r, rq)

AdvanceStore ==
    /\ resp = NoReq
    /\ \E t \in StoreInstants : t > clock /\ clock' = t
    /\ UNCHANGED <<ledger, req, resp>>

NextStore ==
    \/ \E r \in Slots : ArriveStore(r) /\ UNCHANGED <<lastCheck, pageVars>>
    \/ \E r \in Slots : CheckQuery(r) /\ UNCHANGED <<lastCheck, pageVars>>
    \/ \E r \in Slots : PreSubmitQuery(r) /\ UNCHANGED <<lastCheck, pageVars>>
    \/ \E r \in Slots : Insert(r) /\ UNCHANGED <<lastCheck, pageVars>>
    \/ Cleanup /\ UNCHANGED <<lastCheck, pageVars>>
    \/ AdvanceStore /\ UNCHANGED <<lastCheck, pageVars>>
    \/ Sent /\ UNCHANGED <<lastCheck, pageVars>>

SpecStore == InitLedger /\ [][NextStore]_vars

\* ------------------------------------------- submit against check
\* The times the two rules are compared at: a few milliseconds, all inside
\* one cooldown window.
RuleInstants == 0..(MaxFine + 1)

\* A well-formed request arrives; a submit may arrive with the table at its
\* bound, so that one is seen that finds every row the bound allows.
ArriveRule(r) ==
    /\ resp = NoReq
    /\ req[r].pc = "idle"
    /\ \E rq \in WellFormed :
         /\ rq.impl = r
         /\ rq.action = "submit" =>
                Cardinality(ledger) + Cardinality(InFlightSubmits) <= MaxRecords
         /\ Receive(r, rq)

AdvanceRule ==
    /\ resp = NoReq
    /\ \E t \in RuleInstants : t > clock /\ clock' = t
    /\ UNCHANGED <<ledger, req, resp>>

NextRule ==
    \/ \E r \in Slots : ArriveRule(r) /\ UNCHANGED <<lastCheck, pageVars>>
    \/ \E r \in Slots : CheckQuery(r) /\ UNCHANGED <<lastCheck, pageVars>>
    \/ \E r \in Slots : PreSubmitQuery(r) /\ UNCHANGED <<lastCheck, pageVars>>
    \/ \E r \in Slots : Insert(r) /\ UNCHANGED <<lastCheck, pageVars>>
    \/ AdvanceRule /\ UNCHANGED <<lastCheck, pageVars>>
    \/ Sent /\ UNCHANGED <<lastCheck, pageVars>>

SpecRule == InitLedger /\ [][NextRule]_vars

\* A step of a request: the handler takes it up, moves on or answers it.
RequestStep ==
    \/ resp = NoReq /\ resp' # NoReq
    \/ \E r \in Slots : req'[r].pc # req[r].pc

\* The step on which a submit is answered success=true.
AcceptedSubmit ==
    /\ resp = NoReq
    /\ resp'.pc = "done"
    /\ resp'.action = "submit"
    /\ resp'.body.success = <<TRUE>>

\* C21: the table changes only by insertion and by the scheduled delete. The
\* step that answers a submit success=true adds exactly one row, carrying the
\* request's device, the current time and the request's name and user id
\* (null when empty); every other step of a request leaves the table as it
\* was; every row that was there stays, unchanged, unless the cleanup deletes
\* it as older than the retention window.
C21_OnlyInsertAndCleanup ==
    [][/\ AcceptedSubmit =>
            \E rec \in ledger' \ ledger :
                /\ ledger' = ledger \cup {rec}
                /\ rec.device_id = resp'.device_id
                /\ rec.submitted_at = clock
                /\ rec.name = (IF resp'.name = "" THEN "null" ELSE resp'.name)
                /\ rec.user_id_field =
                       (IF resp'.user_id_field = "" THEN "null" ELSE resp'.user_id_field)
       /\ (RequestStep /\ ~AcceptedSubmit) => ledger' = ledger
       /\ ledger \subseteq ledger'
            \/ (~RequestStep /\ ledger' = ledger \ Expired(clock))]_vars

\* A submit was accepted while the table held a row of another device: the
\* new row is there and the other device's row is as it was.
C21_Witness ==
    /\ Answers("submit")
    /\ resp.body.success = <<TRUE>>
    /\ resp.h.count1 = 1
    /\ Cardinality(RecordsOf(resp.device_id)) = 1
    /\ \E rec \in ledger : rec.device_id # resp.device_id /\ rec.submitted_at < clock

\* The step on which cleanup_old_submissions runs and deletes something.
CleanupStep == ~RequestStep /\ ledger' # ledger

\* The requests being handled that were received no longer ago than the
\* retention window exceeds the cooldown window.
RecentInFlight ==
    {r \in Slots : /\ req[r].pc \in {"querying", "prechecking"}
                   /\ req[r].h.at0 >= clock - (RetentionMs - CooldownMs)}

\* C22: the retention window is longer than the cooldown window, so a cleanup
\* run deletes no record with submitted_at >= now - cooldownDuration; for
\* every device the rows a check and a submit received at that instant find,
\* hence the result of the check and the decision of the submit, are the same
\* before and after the run, and so they are for every request in flight
\* that was received at most retention - cooldown ago.
C22_CleanupKeepsCooldownRecords ==
    [][CleanupStep =>
          /\ RetentionMs > CooldownMs
          /\ \A rec \in ledger \ ledger' : rec.submitted_at < clock - CooldownMs
          /\ \A d \in Devices :
                /\ CheckRows(d, Threshold(clock))' = CheckRows(d, Threshold(clock))
                /\ {CheckBody(rows, clock) : rows \in CheckRows(d, Threshold(clock))}'
                       = {CheckBody(rows, clock) : rows \in CheckRows(d, Threshold(clock))}
                /\ PreSubmitRows(d, Threshold(clock))' = PreSubmitRows(d, Threshold(clock))
          /\ \A r \in RecentInFlight :
                Matching(req[r].device_id, req[r].cooldownThreshold)'
                   = Matching(req[r].device_id, req[r].cooldownThreshold)]_vars

\* A cleanup run has deleted the device's first record and kept its second,
\* which is at the edge of the cooldown window, while a check received half
\* an hour earlier was still being handled.
C22_Witness ==
    /\ clock = RetentionMs + 1
    /\ Expired(clock) = {}
    /\ \E rec \in ledger : rec.submitted_at = clock - CooldownMs
    /\ \E r \in Slots : /\ req[r].pc = "querying"
                         /\ req[r].h.count0 = 2
                         /\ req[r].h.at0 = CooldownMs + 1
                         /\ ~req[r].h.alone
                         /\ Cardinality(RecordsOf(req[r].device_id)) = 1

\* The step on which the insert of request r completes.
InsertCompletes(r) == req[r].pc = "inserting" /\ req'[r].pc # "inserting"

\* Of rows, those of device d less than one cooldown window older than time t.
Within(rows, d, t) ==
    {rec \in rows : rec.device_id = d /\ t - rec.submitted_at < CooldownMs}

\* C23: the check and the insert of a submit are two steps and the insert
\* does not look at the table again. Once the pre-submit select has found
\* nothing, the insert (the store not failing) adds the row and the answer
\* is success=true whatever has been inserted since, so two submits of one
\* device that both pass the select before either inserts are both accepted
\* and leave two rows less than cooldownDuration apart; and an accepted
\* submit leaves such a pair only when another write reached the table while
\* it was being handled.
C23_CheckThenInsertNotAtomic ==
    [][/\ \A r \in Slots :
            (InsertCompletes(r) /\ resp'.h.storeError = "none") =>
                /\ resp'.status = 200
                /\ resp'.body.success = <<TRUE>>
                /\ NewRecord(r) \in ledger' \ ledger
       /\ (AcceptedSubmit /\ resp'.h.alone) =>
            Within(ledger', resp'.device_id, clock) = ledger' \ ledger]_vars

\* Two submits of one device were in flight, the device having no row; both
\* were accepted and the table holds two rows of the device with the same
\* submitted_at.
C23_Witness ==
    /\ Answers("submit")
    /\ resp.body.success = <<TRUE>>
    /\ resp.h.count0 = 0
    /\ resp.h.count1 = 2
    /\ ~resp.h.alone
    /\ \E a \in RecordsOf(resp.device_id), b \in RecordsOf(resp.device_id) :
          /\ a # b
          /\ a.submitted_at - b.submitted_at < CooldownMs
          /\ b.submitted_at - a.submitted_at < CooldownMs

\* ---------------------------------------------------------------- the page
VALIDATION_DELAY == 1500

\* The `token` parameter of the URL: none, one that no longer validates, one
\* that does.
Tokens == {"", "old", "good"}

\* lib/tokenUtils
validateToken(token) == [valid |-> token = "good"]
hasValidSession == browser.session

\* lib/deviceFingerprint: the id this browser gets from FingerprintJS, and the
\* ids generateFallbackId may draw.
VisitorId == "d1"
FallbackIds == {"d2"}

\* getDeviceFingerprint: the id returned and what it leaves in the cache and in
\* local storage. fpOk: FingerprintJS.load()/get() resolved; storageOk:
\* localStorage did not throw; fallbackId: generateFallbackId()'s draw.
getDeviceFingerprint(fpOk, storageOk, fallbackId) ==
    IF browser.cachedVisitorId # ""
    THEN [id |-> browser.cachedVisitorId, cached |-> browser.cachedVisitorId,
          stored |-> browser.storedId]
    ELSE IF storageOk /\ browser.storedId # ""
    THEN [id |-> browser.storedId, cached |-> browser.storedId,
          stored |-> browser.storedId]
    ELSE LET id == IF fpOk THEN VisitorId ELSE fallbackId
         IN  [id |-> id, cached |-> id,
              stored |-> IF storageOk THEN id ELSE browser.storedId]

\* fetch('/api/check-device-cooldown', {device_id, action: 'check'})
CheckCall(deviceId) ==
    [NoReq EXCEPT !.pc = "sent", !.impl = "vercel", !.method = "POST",
                  !.device_id = deviceId, !.action = "check"]

\* The await of checkServerCooldown is over: its fetch resolved, or it
\* rejected and the catch block returned.
SettledNoCatch(c) == c.pc = "done"
Settled(c) == c.pc \in {"done", "failed"}

\* checkServerCooldown: what it resolves to, given how the fetch ended
NoCooldown == [inCooldown |-> FALSE, remaining |-> 0]

checkServerCooldownFailClosed(c) ==
    IF c.pc = "failed" \/ c.status \notin 200..299
    THEN [inCooldown |-> TRUE, remaining |-> 0]
    ELSE [inCooldown |-> IF c.body.inCooldown = Absent THEN FALSE ELSE c.body.inCooldown[1],
          remaining |-> IF c.body.remaining = Absent THEN 0 ELSE c.body.remaining[1]]
checkServerCooldown(c) ==
    IF c.pc = "failed" THEN NoCooldown
    ELSE IF c.status \notin 200..299 THEN NoCooldown
    ELSE [inCooldown |-> IF c.body.inCooldown = Absent THEN FALSE ELSE c.body.inCooldown[1],
          remaining |-> IF c.body.remaining = Absent THEN 0 ELSE c.body.remaining[1]]

\* The order of the decisions of initializeAndCheck after the first check.
InitOutcomeSessionFirst(inCooldown, sessionValid, token) ==
    IF sessionValid THEN "granted"
    ELSE IF inCooldown THEN "cooldown"
    ELSE IF token = "" THEN "denied"
    ELSE "validating"
InitOutcomeTokenFirst(inCooldown, sessionValid, token) ==
    IF inCooldown THEN "cooldown"
    ELSE IF token = "" THEN "denied"
    ELSE IF sessionValid THEN "granted"
    ELSE "validating"
InitOutcomeNoTokenTest(inCooldown, sessionValid, token) ==
    IF inCooldown THEN "cooldown"
    ELSE IF sessionValid THEN "granted"
    ELSE "validating"
InitOutcome(inCooldown, sessionValid, token) ==
    IF inCooldown THEN "cooldown"
    ELSE IF sessionValid THEN "granted"
    ELSE IF token = "" THEN "denied"
    ELSE "validating"

\* ... and of the timeout callback after the re-check.
RecheckOutcomeTokenFirst(inCooldown, valid) ==
    IF valid THEN "granted"
    ELSE IF inCooldown THEN "cooldown"
    ELSE "expired"
RecheckOutcomeNoRecheck(inCooldown, valid) == IF valid THEN "granted" ELSE "expired"
RecheckOutcome(inCooldown, valid) ==
    IF inCooldown THEN "cooldown"
    ELSE IF valid THEN "granted"
    ELSE "expired"

\* The request reaches the Vercel function, configured or not.
ServerReceive(r) ==
    /\ resp = NoReq
    /\ req[r].pc = "sent"
    /\ \E env \in BOOLEAN :
         Receive(r, Request(req[r].impl, req[r].method, env, req[r].device_id,
                            req[r].action, req[r].name, req[r].user_id_field))
    /\ UNCHANGED <<lastCheck, pageVars>>

\* fetch rejects: the request never arrived, or its response was lost.
NetFail(r) ==
    /\ resp = NoReq
    /\ r \in ClientSlots
    /\ req[r].pc \in {"sent", "done"}
    /\ req' = [req EXCEPT ![r] = [NoReq EXCEPT !.pc = "failed"]]
    /\ UNCHANGED <<clock, ledger, resp, lastCheck, pageVars>>

\* The page is loaded anew with a URL: a new script context (the module-level
\* cache is empty, timers and pending fetches are gone), the same storage.
\* A request that was in flight is abandoned; one the function is handling is
\* handled to its end first, since the reload does not reach the server.
Load(token) ==
    /\ resp = NoReq
    /\ req["page"].pc \notin {"prechecking", "inserting"}
    /\ page' = FreshPage
    /\ init' = FreshInit
    /\ form' = FreshForm
    /\ poll' = FreshPoll
    /\ sink' = NoSink
    /\ stale' = NoStale
    /\ browser' = [browser EXCEPT !.token = token, !.cachedVisitorId = ""]
    /\ req' = [req EXCEPT !["page"] = NoReq]
    /\ UNCHANGED <<clock, ledger, resp, lastCheck, guard, form2, gate>>

\* const id = await getDeviceFingerprint(); setDeviceId(id); then the first
\* checkServerCooldown(id) sends its request.
Fingerprinted ==
    /\ resp = NoReq
    /\ init.pc = "fingerprint"
    /\ \E fpOk \in BOOLEAN, storageOk \in BOOLEAN, fallbackId \in FallbackIds :
         LET fp == getDeviceFingerprint(fpOk, storageOk, fallbackId)
         IN  /\ browser' = [browser EXCEPT !.cachedVisitorId = fp.cached,
                                           !.storedId = fp.stored]
             /\ page' = [page EXCEPT !.deviceId = fp.id]
             /\ init' = [init EXCEPT !.pc = "check", !.id = fp.id]
             /\ req' = [req EXCEPT !["page"] = CheckCall(fp.id)]
    /\ UNCHANGED <<clock, ledger, resp, lastCheck, guard, form2, gate, stale, formVars>>

\* initializeAndCheck resumes with the result of the first check.
InitChecked ==
    /\ resp = NoReq
    /\ init.pc = "check"
    /\ Settled(req["page"])
    /\ LET result == checkServerCooldown(req["page"])
           outcome == InitOutcome(result.inCooldown, hasValidSession, browser.token)
           asked == IF result.inCooldown THEN init.calls
                    ELSE [init.calls EXCEPT !.hasValidSession = TRUE]
       IN  /\ req' = [req EXCEPT !["page"] = NoReq]
           /\ CASE outcome = "cooldown" ->
                    /\ page' = [page EXCEPT !.accessState = "cooldown",
                                            !.cooldownRemaining = result.remaining,
                                            !.validationMessage = "COOLDOWN_ACTIVE"]
                    /\ init' = [init EXCEPT !.pc = "none", !.calls = asked]
                [] outcome = "granted" ->
                    /\ page' = [page EXCEPT !.accessState = "granted",
                                            !.validationMessage = "SESSION_RESTORED"]
                    /\ init' = [init EXCEPT !.pc = "none", !.calls = asked]
                [] outcome = "denied" ->
                    /\ page' = [page EXCEPT !.accessState = "denied",
                                            !.validationMessage = "NO_TOKEN_PROVIDED"]
                    /\ init' = [init EXCEPT !.pc = "none", !.calls = asked]
                [] OTHER ->
                    /\ page' = [page EXCEPT !.accessState = "validating"]
                    /\ init' = [init EXCEPT !.pc = "timer", !.calls = asked,
                                            !.due = clock + VALIDATION_DELAY]
    /\ UNCHANGED <<clock, ledger, resp, lastCheck, guard, form2, gate, stale, browser, formVars>>

\* The validation timeout fires and its callback sends the re-check.
TimerFires ==
    /\ resp = NoReq
    /\ init.pc = "timer"
    /\ clock >= init.due
    /\ init' = [init EXCEPT !.pc = "recheck"]
    /\ req' = [req EXCEPT !["page"] = CheckCall(init.id)]
    /\ UNCHANGED <<clock, ledger, resp, lastCheck, guard, form2, gate, stale, page, browser, formVars>>

\* The callback resumes with the result of the re-check.
Rechecked ==
    /\ resp = NoReq
    /\ init.pc = "recheck"
    /\ Settled(req["page"])
    /\ LET recheck == checkServerCooldown(req["page"])
           outcome == RecheckOutcome(recheck.inCooldown, validateToken(browser.token).valid)
           asked == IF recheck.inCooldown THEN init.calls
                    ELSE [init.calls EXCEPT !.validateToken = TRUE]
       IN  /\ req' = [req EXCEPT !["page"] = NoReq]
           /\ CASE outcome = "cooldown" ->
                    /\ page' = [page EXCEPT !.accessState = "cooldown",
                                            !.cooldownRemaining = recheck.remaining,
                                            !.validationMessage = "COOLDOWN_ACTIVE"]
                    /\ init' = [init EXCEPT !.pc = "none", !.calls = asked]
                    /\ UNCHANGED browser
                [] outcome = "granted" ->
                    /\ browser' = [browser EXCEPT !.session = TRUE]
                    /\ page' = [page EXCEPT !.accessState = "granted",
                                            !.validationMessage = "ACCESS_GRANTED"]
                    /\ init' = [init EXCEPT !.pc = "none", !.calls =
                                   [asked EXCEPT !.storeSessionToken = @ + 1]]
                [] OTHER ->
                    /\ page' = [page EXCEPT !.accessState = "expired",
                                            !.validationMessage = "TOKEN_EXPIRED"]
                    /\ init' = [init EXCEPT !.pc = "none", !.calls = asked]
                    /\ UNCHANGED browser
    /\ UNCHANGED <<clock, ledger, resp, lastCheck, guard, form2, gate, stale, formVars>>

\* The session marker reaches its own expiry.
SessionExpires ==
    /\ resp = NoReq
    /\ browser.session
    /\ browser' = [browser EXCEPT !.session = FALSE]
    /\ UNCHANGED <<clock, ledger, req, resp, lastCheck, guard, form2, gate, stale, page, init, formVars>>

\* Another client (another tab, this device or another) submits and the
\* function handles it in one piece: the pre-submit select finds nothing and
\* the insert goes through.
OtherSubmit(d) ==
    /\ resp = NoReq
    /\ Cardinality(ledger) < MaxRecords
    /\ PreSubmitRows(d, Threshold(clock)) = {<<>>}
    /\ ledger' = ledger \cup
         {[id |-> FreshId(d, clock), device_id |-> d, submitted_at |-> clock,
           name |-> IF PayloadOf(d)[1] = "" THEN "null" ELSE PayloadOf(d)[1],
           user_id_field |-> IF PayloadOf(d)[2] = "" THEN "null" ELSE PayloadOf(d)[2]]}
    /\ req' = Disturb(req, "none")
    /\ UNCHANGED <<clock, resp, lastCheck, pageVars>>

\* The times the page is followed at: a load, the end of its validation
\* delay, and the same one cooldown later.
PageInstants == {c + f : c \in {0, CooldownMs}, f \in {0, VALIDATION_DELAY}}

AdvancePage ==
    /\ resp = NoReq
    /\ \E t \in PageInstants : t > clock /\ clock' = t
    /\ UNCHANGED <<ledger, req, resp, lastCheck, pageVars>>

InitPage ==
    /\ clock = 0
    /\ ledger = {}
    /\ req = [r \in PageSlots |-> NoReq]
    /\ resp = NoReq
    /\ lastCheck = NoCheck
    /\ page = FreshPage
    /\ init = FreshInit
    /\ \E token \in Tokens : browser = FreshBrowser(token)
    /\ form = FreshForm
    /\ poll = FreshPoll
    /\ sink = NoSink
    /\ stale = NoStale
    /\ guard = NoGuard
    /\ form2 = NoSecond
    /\ gate = NoGate

NextPage ==
    \/ \E token \in Tokens : Load(token)
    \/ Fingerprinted
    \/ InitChecked
    \/ TimerFires
    \/ Rechecked
    \/ SessionExpires
    \/ \E r \in Slots : ServerReceive(r)
    \/ \E r \in Slots : NetFail(r)
    \/ \E r \in Slots : CheckQuery(r) /\ UNCHANGED <<lastCheck, pageVars>>
    \/ \E d \in Devices : OtherSubmit(d)
    \/ AdvancePage

SpecPage == InitPage /\ [][NextPage]_vars

\* ------------------------------------------------- claims about the page
\* The step on which initializeAndCheck resumes after its first check, the
\* step on which the validation timeout fires, and the step on which its
\* callback resumes after the re-check.
InitCheckedStep == init.pc = "check" /\ init'.pc \in {"none", "timer"}
TimerFiresStep == init.pc = "timer" /\ init'.pc = "recheck"
RecheckedStep == init.pc = "recheck" /\ init'.pc = "none"

\* What the check that just came back reports to the page.
Reported == checkServerCooldown(req["page"])

NoSessionStored ==
    /\ init'.calls.storeSessionToken = 0
    /\ browser'.session = browser.session

\* C7: on page load, when the check reports the device in cooldown, the page
\* goes to `cooldown` with the reported remaining time, whatever session
\* marker the browser holds and whatever token the URL carries; neither
\* hasValidSession nor validateToken is called and no session is stored.
C7_CooldownBeatsSessionAndToken ==
    [][(InitCheckedStep /\ Reported.inCooldown) =>
          /\ page'.accessState = "cooldown"
          /\ page'.cooldownRemaining = Reported.remaining
          /\ init'.pc = "none"
          /\ init'.calls.hasValidSession = FALSE
          /\ init'.calls.validateToken = FALSE
          /\ NoSessionStored]_vars

\* A page in cooldown straight from its first check, a valid session marker in
\* the browser and a valid token in the URL.
C7_Witness ==
    /\ page.accessState = "cooldown"
    /\ page.cooldownRemaining > 0
    /\ init.calls = NoCalls
    /\ browser.session
    /\ browser.token = "good"

\* C8: when the check reports no cooldown and hasValidSession() is true, the
\* page goes to `granted` with SESSION_RESTORED for every URL token, a
\* missing or an invalid one included; validateToken is not run and
\* storeSessionToken is not called.
C8_SessionRestoredForAnyToken ==
    [][(InitCheckedStep /\ ~Reported.inCooldown /\ hasValidSession) =>
          /\ page'.accessState = "granted"
          /\ page'.validationMessage = "SESSION_RESTORED"
          /\ init'.pc = "none"
          /\ init'.calls.validateToken = FALSE
          /\ NoSessionStored]_vars

\* A page granted by the session marker alone: the URL has no token.
C8_Witness ==
    /\ page.accessState = "granted"
    /\ page.validationMessage = "SESSION_RESTORED"
    /\ browser.token = ""
    /\ init.calls = [NoCalls EXCEPT !.hasValidSession = TRUE]

\* C9: when the check reports no cooldown, there is no valid session and the
\* URL has no token, the page goes straight to `denied` with
\* NO_TOKEN_PROVIDED: it does not become `validating`, no timeout is set,
\* validateToken is not called and no session is stored.
C9_NoTokenDenied ==
    [][(InitCheckedStep /\ ~Reported.inCooldown /\ ~hasValidSession
            /\ browser.token = "") =>
          /\ page'.accessState = "denied"
          /\ page'.validationMessage = "NO_TOKEN_PROVIDED"
          /\ init'.pc = "none"
          /\ init'.calls.validateToken = FALSE
          /\ NoSessionStored]_vars

C9_Witness ==
    /\ page.accessState = "denied"
    /\ page.validationMessage = "NO_TOKEN_PROVIDED"
    /\ init.pc = "none"
    /\ ~browser.session
    /\ browser.token = ""

\* C10: from `validating`, once the delay has passed, the callback sends the
\* ledger check again before it looks at the token. If the re-check reports
\* cooldown the page goes to `cooldown` and no session is stored; otherwise a
\* valid token stores the session and gives `granted`, an invalid one gives
\* `expired` and stores no session.
C10_RecheckBeforeToken ==
    [][/\ TimerFiresStep =>
            /\ page.accessState = "validating"
            /\ clock >= init.due
            /\ req'["page"] = CheckCall(init.id)
            /\ init'.calls.validateToken = FALSE
       /\ (RecheckedStep /\ Reported.inCooldown) =>
            /\ page'.accessState = "cooldown"
            /\ page'.cooldownRemaining = Reported.remaining
            /\ init'.calls.validateToken = FALSE
            /\ NoSessionStored
       /\ (RecheckedStep /\ ~Reported.inCooldown /\ validateToken(browser.token).valid) =>
            /\ page'.accessState = "granted"
            /\ init'.calls.storeSessionToken = 1
            /\ browser'.session
       /\ (RecheckedStep /\ ~Reported.inCooldown /\ ~validateToken(browser.token).valid) =>
            /\ page'.accessState = "expired"
            /\ NoSessionStored]_vars

\* A page with a valid token that the re-check put in cooldown: the device
\* was clear at the first check and submitted during the validation delay.
C10_Witness ==
    /\ page.accessState = "cooldown"
    /\ page.cooldownRemaining > 0
    /\ init.calls = [NoCalls EXCEPT !.hasValidSession = TRUE]
    /\ browser.token = "good"
    /\ ~browser.session

AdvanceLive ==
    /\ resp = NoReq
    /\ \/ \E t \in PageInstants : t > clock /\ clock' = t
       \/ init.pc = "timer" /\ clock < init.due /\ clock' = init.due
    /\ UNCHANGED <<ledger, req, resp, lastCheck, pageVars>>

\* A request of the page gets on: it reaches the function, its select
\* completes, or its fetch rejects.
NetworkReturns ==
    \E r \in Slots :
        \/ ServerReceive(r)
        \/ CheckQuery(r) /\ UNCHANGED <<lastCheck, pageVars>>
        \/ req[r].pc = "sent" /\ NetFail(r)

\* One page load, never reloaded.
NextLive ==
    \/ Fingerprinted
    \/ InitChecked
    \/ TimerFires
    \/ Rechecked
    \/ SessionExpires
    \/ \E r \in Slots : ServerReceive(r)
    \/ \E r \in Slots : NetFail(r)
    \/ \E r \in Slots : CheckQuery(r) /\ UNCHANGED <<lastCheck, pageVars>>
    \/ \E d \in Devices : OtherSubmit(d)
    \/ AdvanceLive

\* Every await of initializeAndCheck is resumed once what it waits for has
\* settled, every network call returns, and the clock reaches the moment a
\* pending timeout is due, when the timeout fires.
FairLive ==
    /\ WF_vars(Fingerprinted)
    /\ WF_vars(InitChecked)
    /\ WF_vars(Rechecked)
    /\ WF_vars(TimerFires)
    /\ WF_vars(NetworkReturns)
    /\ WF_vars(init.pc = "timer" /\ clock < init.due /\ AdvanceLive)

SpecLive == InitPage /\ [][NextLive]_vars /\ FairLive

\* C36: with every network call returning and every timer firing, a page
\* load that is in `checking` or `validating` comes to `granted`, `denied`,
\* `expired` or `cooldown`.
C36_LoadComesToAnEnd ==
    (page.accessState \in {"checking", "validating"}) ~>
        (page.accessState \in {"granted", "denied", "expired", "cooldown"})

\* A load that went through `validating` and its timeout, late enough for the
\* clock to have been taken to the moment the timeout was due.
C36_Witness ==
    /\ page.accessState \in {"granted", "expired"}
    /\ init.calls.validateToken
    /\ init.pc = "none"
    /\ clock > CooldownMs + VALIDATION_DELAY

\* ------------------------------- effect runs and teardown of the page
\* The component is not mounted: no AccessState is held.
Unmounted == [FreshPage EXCEPT !.accessState = "unmounted"]

\* The call of the current effect run as it goes on after that run is over.
\* The effect returns no cleanup, so the call, its pending fetch and its
\* timeout stay; searchParams is the object the call closed over.
Outliving(mounted) ==
    IF init.pc = "none" THEN [NoStale EXCEPT !.reruns = stale.reruns + 1]
    ELSE [pc |-> init.pc, id |-> init.id, token |-> browser.token, due |-> init.due,
          mounted |-> mounted, reruns |-> stale.reruns + 1]

\* The outliving call has returned.
Returned == [NoStale EXCEPT !.reruns = stale.reruns]

\* searchParams changes while the component is mounted (a history step inside
\* the application): React runs the init effect again. useState keeps the
\* state; a new initializeAndCheck starts beside the old one.
Renavigate(token) ==
    /\ resp = NoReq
    /\ page.accessState # "unmounted"
    /\ init.pc \in {"check", "timer", "recheck"}
    /\ stale.pc = "none"
    /\ stale.reruns < MaxReruns
    /\ token # browser.token
    /\ stale' = Outliving(TRUE)
    /\ init' = FreshInit
    /\ browser' = [browser EXCEPT !.token = token]
    /\ req' = [req EXCEPT !["stale"] = req["page"], !["page"] = NoReq]
    /\ UNCHANGED <<clock, ledger, resp, lastCheck, guard, form2, gate, page, formVars>>

\* The router leaves the route: the component is torn down.
Unmount ==
    /\ resp = NoReq
    /\ page.accessState # "unmounted"
    /\ init.pc \in {"check", "timer", "recheck"}
    /\ stale.pc = "none"
    /\ stale.reruns < MaxReruns
    /\ stale' = Outliving(FALSE)
    /\ init' = [FreshInit EXCEPT !.pc = "none"]
    /\ page' = Unmounted
    /\ req' = [req EXCEPT !["stale"] = req["page"], !["page"] = NoReq]
    /\ UNCHANGED <<clock, ledger, resp, lastCheck, guard, form2, gate, browser, formVars>>

\* The router comes back to the route: a new component, the same script
\* context.
Remount(token) ==
    /\ resp = NoReq
    /\ page.accessState = "unmounted"
    /\ page' = FreshPage
    /\ init' = FreshInit
    /\ browser' = [browser EXCEPT !.token = token]
    /\ UNCHANGED <<clock, ledger, req, resp, lastCheck, guard, form2, gate, stale, formVars>>

\* setAccessState and the other setters: they act on a mounted component and
\* do nothing on one that is gone.
SetState(mounted, next) == IF mounted THEN next ELSE page

\* The outliving call resumes with the result of its first check.
StaleChecked ==
    /\ resp = NoReq
    /\ stale.pc = "check"
    /\ req["stale"].pc \in {"done", "failed"}
    /\ LET result == checkServerCooldown(req["stale"])
           outcome == InitOutcome(result.inCooldown, hasValidSession, stale.token)
       IN  /\ req' = [req EXCEPT !["stale"] = NoReq]
           /\ CASE outcome = "cooldown" ->
                    /\ page' = SetState(stale.mounted,
                                   [page EXCEPT !.accessState = "cooldown",
                                                !.cooldownRemaining = result.remaining,
                                                !.validationMessage = "COOLDOWN_ACTIVE"])
                    /\ stale' = Returned
                [] outcome = "granted" ->
                    /\ page' = SetState(stale.mounted,
                                   [page EXCEPT !.accessState = "granted",
                                                !.validationMessage = "SESSION_RESTORED"])
                    /\ stale' = Returned
                [] outcome = "denied" ->
                    /\ page' = SetState(stale.mounted,
                                   [page EXCEPT !.accessState = "denied",
                                                !.validationMessage = "NO_TOKEN_PROVIDED"])
                    /\ stale' = Returned
                [] OTHER ->
                    /\ page' = SetState(stale.mounted,
                                   [page EXCEPT !.accessState = "validating"])
                    /\ stale' = [stale EXCEPT !.pc = "timer",
                                              !.due = clock + VALIDATION_DELAY]
    /\ UNCHANGED <<clock, ledger, resp, lastCheck, guard, form2, gate, init, browser, formVars>>

\* The timeout of the outliving call fires and its callback sends the
\* re-check: nothing has cleared it.
StaleTimerFires ==
    /\ resp = NoReq
    /\ stale.pc = "timer"
    /\ clock >= stale.due
    /\ stale' = [stale EXCEPT !.pc = "recheck"]
    /\ req' = [req EXCEPT !["stale"] = CheckCall(stale.id)]
    /\ UNCHANGED <<clock, ledger, resp, lastCheck, guard, form2, gate, page, init, browser, formVars>>

\* The callback of the outliving call resumes with the result of the re-check.
StaleRechecked ==
    /\ resp = NoReq
    /\ stale.pc = "recheck"
    /\ req["stale"].pc \in {"done", "failed"}
    /\ LET recheck == checkServerCooldown(req["stale"])
           outcome == RecheckOutcome(recheck.inCooldown, validateToken(stale.token).valid)
       IN  /\ req' = [req EXCEPT !["stale"] = NoReq]
           /\ CASE outcome = "cooldown" ->
                    /\ page' = SetState(stale.mounted,
                                   [page EXCEPT !.accessState = "cooldown",
                                                !.cooldownRemaining = recheck.remaining,
                                                !.validationMessage = "COOLDOWN_ACTIVE"])
                    /\ UNCHANGED browser
                [] outcome = "granted" ->
                    /\ browser' = [browser EXCEPT !.session = TRUE]
                    /\ page' = SetState(stale.mounted,
                                   [page EXCEPT !.accessState = "granted",
                                                !.validationMessage = "ACCESS_GRANTED"])
                [] OTHER ->
                    /\ page' = SetState(stale.mounted,
                                   [page EXCEPT !.accessState = "expired",
                                                !.validationMessage = "TOKEN_EXPIRED"])
                    /\ UNCHANGED browser
    /\ stale' = Returned
    /\ UNCHANGED <<clock, ledger, resp, lastCheck, guard, form2, gate, init, formVars>>

\* The times the effect runs are followed at: a run and the end of its
\* validation delay; no cooldown ends in between.
TimerInstants == {0, VALIDATION_DELAY}

AdvanceTimers ==
    /\ resp = NoReq
    /\ \E t \in TimerInstants : t > clock /\ clock' = t
    /\ UNCHANGED <<ledger, req, resp, lastCheck, pageVars>>

NextTimers ==
    \/ \E token \in Tokens : Renavigate(token)
    \/ Unmount
    \/ \E token \in Tokens : Remount(token)
    \/ Fingerprinted
    \/ InitChecked
    \/ TimerFires
    \/ Rechecked
    \/ StaleChecked
    \/ StaleTimerFires
    \/ StaleRechecked
    \/ \E r \in Slots : ServerReceive(r)
    \/ \E r \in Slots : NetFail(r)
    \/ \E r \in Slots : CheckQuery(r) /\ UNCHANGED <<lastCheck, pageVars>>
    \/ page.deviceId # "" /\ OtherSubmit(page.deviceId)
    \/ AdvanceTimers

SpecTimers == InitPage /\ [][NextTimers]_vars

\* C24 as stated, for the validation timeout: once the effect that started
\* it has been run again or the component has been torn down, the timeout
\* is cancelled and its callback never runs.
C24_TimeoutCancelled == [][stale.pc = "timer" => stale'.pc = "timer"]_vars

\* The step on which a check of the outliving call comes back, the page no
\* longer being in the state in which the call sent it: `checking` for its
\* first check, `validating` for the re-check of its timeout callback.
LateResponse ==
    \/ stale.pc = "check" /\ stale'.pc # "check" /\ page.accessState # "checking"
    \/ stale.pc = "recheck" /\ stale'.pc # "recheck" /\ page.accessState # "validating"

\* C25 as stated: a check response that arrives after the init effect was
\* run again, the page having left the state in which the request was sent,
\* does not change AccessState.
C25_LateResponseIgnored ==
    [][LateResponse => page'.accessState = page.accessState]_vars

\* ------------------------------------------------ the device fingerprint
\* getDeviceFingerprint is followed call by call: the lookups of a call are
\* made when it starts, FingerprintJS is awaited, and what follows the await
\* runs when it resolves, another call possibly having started or returned
\* in between. init is the call of the current effect run and stale the
\* call of the run before it; a call that has returned has pc "none" and its
\* result in id.

\* What generateFallbackId may draw over several calls.
FallbackDraws == FallbackIds \cup {"d3", "d4"}

\* What localStorage holds under the key when every access to it throws.
Blocked == "blocked"

StorageWorks == browser.storedId # Blocked

\* localStorage.getItem(DEVICE_ID_KEY) at the start of a call: the id it
\* finds, "" when there is none or the access throws.
FpStoredIgnored == ""
FpStored == IF StorageWorks /\ browser.storedId # "" THEN browser.storedId ELSE ""

\* The lookups at the start of a call: the module-level cache, then
\* localStorage; "" when neither has an id.
FpFound == IF browser.cachedVisitorId # "" THEN browser.cachedVisitorId ELSE FpStored

\* After the await: the id FingerprintJS gave or the fallback drawn, written
\* to localStorage when it works, and cached.
FpGenerated(fpOk, fallbackId) ==
    LET id == IF fpOk THEN VisitorId ELSE fallbackId
    IN  [id |-> id, cached |-> id,
         stored |-> IF StorageWorks THEN id ELSE browser.storedId]

\* The call of a new effect run, after its lookups, and the page after
\* setDeviceId when the call has returned.
FpStarted(found) ==
    IF found # "" THEN [FreshInit EXCEPT !.pc = "none", !.id = found] ELSE FreshInit

\* The page is loaded anew with a URL: the cache is empty, calls that were
\* pending are gone, the init effect makes its call.
FpLoad(token) ==
    /\ browser' = [browser EXCEPT !.token = token, !.cachedVisitorId = FpStored]
    /\ init' = FpStarted(FpStored)
    /\ stale' = NoStale
    /\ page' = [FreshPage EXCEPT !.deviceId = FpStored]
    /\ UNCHANGED <<serverVars, lastCheck, guard, form2, gate, formVars>>

\* The init effect runs again in the same page and makes its call; the call
\* of the run before goes on if it is still waiting.
FpRerun ==
    /\ stale.pc = "none"
    /\ stale' = IF init.pc = "fingerprint" THEN [NoStale EXCEPT !.pc = "fingerprint"]
                ELSE NoStale
    /\ init' = FpStarted(FpFound)
    /\ browser' = [browser EXCEPT !.cachedVisitorId = FpFound]
    /\ page' = [page EXCEPT !.deviceId = IF FpFound # "" THEN FpFound ELSE @]
    /\ UNCHANGED <<serverVars, lastCheck, guard, form2, gate, formVars>>

\* FingerprintJS resolves or throws for the call of the current run.
FpResolves ==
    /\ init.pc = "fingerprint"
    /\ \E fpOk \in BOOLEAN, fallbackId \in FallbackDraws :
         LET fp == FpGenerated(fpOk, fallbackId)
         IN  /\ browser' = [browser EXCEPT !.cachedVisitorId = fp.cached,
                                           !.storedId = fp.stored]
             /\ init' = [init EXCEPT !.pc = "none", !.id = fp.id]
             /\ page' = [page EXCEPT !.deviceId = fp.id]
    /\ UNCHANGED <<serverVars, lastCheck, guard, form2, gate, stale, formVars>>

\* ... and for the call of the run before.
FpStaleResolves ==
    /\ stale.pc = "fingerprint"
    /\ \E fpOk \in BOOLEAN, fallbackId \in FallbackDraws :
         LET fp == FpGenerated(fpOk, fallbackId)
         IN  /\ browser' = [browser EXCEPT !.cachedVisitorId = fp.cached,
                                           !.storedId = fp.stored]
             /\ stale' = [NoStale EXCEPT !.id = fp.id]
             /\ page' = [page EXCEPT !.deviceId = fp.id]
    /\ UNCHANGED <<serverVars, lastCheck, guard, form2, gate, init, formVars>>

\* clearDeviceFingerprint
FpClear ==
    /\ browser.cachedVisitorId # "" \/ browser.storedId \notin {"", Blocked}
    /\ browser' = [browser EXCEPT !.cachedVisitorId = "",
                                  !.storedId = IF StorageWorks THEN "" ELSE @]
    /\ UNCHANGED <<serverVars, lastCheck, guard, form2, gate, page, init, stale, formVars>>

\* An install: nothing cached or stored, localStorage working or not.
InitFingerprint ==
    /\ clock = 0
    /\ ledger = {}
    /\ req = [r \in PageSlots |-> NoReq]
    /\ resp = NoReq
    /\ lastCheck = NoCheck
    /\ page = FreshPage
    /\ init = FreshInit
    /\ \E stored \in {"", Blocked} : browser = [FreshBrowser("") EXCEPT !.storedId = stored]
    /\ form = FreshForm
    /\ poll = FreshPoll
    /\ sink = NoSink
    /\ stale = NoStale
    /\ guard = NoGuard
    /\ form2 = NoSecond
    /\ gate = NoGate

NextFingerprint ==
    \/ \E token \in Tokens : FpLoad(token)
    \/ FpRerun
    \/ FpResolves
    \/ FpStaleResolves
    \/ FpClear

SpecFingerprint == InitFingerprint /\ [][NextFingerprint]_vars

\* The id a step returns to the call of the current run, or to the call of
\* the run before; "" when the step returns none.
ReturnedNow == IF init' # init /\ init'.pc = "none" THEN init'.id ELSE ""
ReturnedLate == IF stale.pc = "fingerprint" /\ stale' # stale THEN stale'.id ELSE ""

\* C26 as stated: localStorage working and holding the id an earlier call
\* wrote, every call that returns gives that id back and none writes to
\* localStorage again (only clearDeviceFingerprint empties it).
C26_LaterCallsReturnFirstId ==
    [][(StorageWorks /\ browser.storedId # "") =>
          /\ ReturnedNow \in {"", browser.storedId}
          /\ ReturnedLate \in {"", browser.storedId}
          /\ browser'.storedId \in {"", browser.storedId}]_vars

\* A page load in an install whose stored id is a fallback id: the primary
\* call had failed when the id was generated.
ReloadAfterFallback ==
    /\ \E token \in Tokens : FpLoad(token)
    /\ browser.storedId \in FallbackDraws

\* C27 as stated: after a call that fell back, the next page load gets
\* another identifier than the one that call left behind.
C27_FallbackRegeneratedOnReload ==
    [][ReloadAfterFallback => init'.id # browser.storedId]_vars

\* C27: a fallback id is written to localStorage and the page loads that
\* follow return it without calling FingerprintJS or generateFallbackId
\* again, and without writing; a page load generates an id anew only when
\* localStorage holds none, which is the case on every load when localStorage
\* does not work, and then the id is neither read back nor stored.
C27_FallbackReusedWhileStored ==
    [][/\ ReloadAfterFallback =>
            /\ init'.pc = "none"
            /\ init'.id = browser.storedId
            /\ page'.deviceId = browser.storedId
            /\ browser'.storedId = browser.storedId
       /\ (~StorageWorks /\ \E token \in Tokens : FpLoad(token)) =>
            (init'.pc = "fingerprint" /\ browser'.cachedVisitorId = "")
       /\ ~StorageWorks => browser'.storedId = browser.storedId]_vars

\* A page loaded with a new URL in an install that holds a fallback id: the
\* call has returned the stored id.
C27_Witness ==
    /\ browser.token = "good"
    /\ init.pc = "none"
    /\ init.id \in FallbackDraws
    /\ browser.storedId = init.id
    /\ browser.cachedVisitorId = init.id
    /\ page.deviceId = init.id
    /\ stale = NoStale
    /\ guard = NoGuard
    /\ form2 = NoSecond
    /\ gate = NoGate

\* ------------------------------------------- the notification endpoint
\* The two handlers of /api/send-to-telegram in the repository.
SinkImpls == {"api/send-to-telegram.ts", "part_002"}

FormFields == {"subjectName", "name", "id", "weekNumber"}

\* if (!name || !id) / if (!subjectName || !name || !id || !weekNumber)
RequiredFields(impl) ==
    IF impl = "api/send-to-telegram.ts" THEN {"name", "id"} ELSE FormFields

\* A request for the endpoint: fields are the body's fields that are present
\* and not empty; without a body req.body is undefined.
SinkRequest(impl, method, token, chat, hasBody, fields) ==
    [NoSink EXCEPT !.pc = "sent", !.impl = impl, !.method = method,
                   !.TELEGRAM_BOT_TOKEN = token, !.TELEGRAM_CHAT_ID = chat,
                   !.hasBody = hasBody, !.fields = IF hasBody THEN fields ELSE {}]

SinkAnswer(rq, status, success, error) ==
    [rq EXCEPT !.pc = "done", !.status = status, !.success = success, !.error = error]

\* The handler up to its await of the Telegram call: the answer it gives
\* without calling, or the request now waiting for Telegram.
SinkPrefixNoValidation(rq) ==
    IF rq.method = "OPTIONS" THEN SinkAnswer(rq, 200, Absent, FALSE)
    ELSE IF rq.method # "POST" THEN SinkAnswer(rq, 405, <<FALSE>>, TRUE)
    ELSE IF ~rq.TELEGRAM_BOT_TOKEN \/ ~rq.TELEGRAM_CHAT_ID
    THEN SinkAnswer(rq, 500, <<FALSE>>, TRUE)
    ELSE IF ~rq.hasBody THEN SinkAnswer(rq, 500, <<FALSE>>, TRUE)
    ELSE [rq EXCEPT !.pc = "calling", !.calls = @ + 1]
SinkPrefix(rq) ==
    IF rq.method = "OPTIONS" THEN SinkAnswer(rq, 200, Absent, FALSE)
    ELSE IF rq.method # "POST" THEN SinkAnswer(rq, 405, <<FALSE>>, TRUE)
    ELSE IF ~rq.TELEGRAM_BOT_TOKEN \/ ~rq.TELEGRAM_CHAT_ID
    THEN SinkAnswer(rq, 500, <<FALSE>>, TRUE)
    ELSE IF ~rq.hasBody THEN SinkAnswer(rq, 500, <<FALSE>>, TRUE)
    ELSE IF ~(RequiredFields(rq.impl) \subseteq rq.fields)
    THEN SinkAnswer(rq, 400, <<FALSE>>, TRUE)
    ELSE [rq EXCEPT !.pc = "calling", !.calls = @ + 1]

\* What Telegram did with the message: accepted it (ok: true), rejected it
\* (ok: false), or the fetch / response.json() threw.
Downstream == {"ok", "rejected", "throws"}

\* The handler after the await.
SinkResultAlwaysOk(rq, outcome) ==
    SinkAnswer([rq EXCEPT !.downstream = outcome], 200, <<TRUE>>, FALSE)
SinkResult(rq, outcome) ==
    IF outcome = "throws"
    THEN SinkAnswer([rq EXCEPT !.downstream = outcome], 500, <<FALSE>>, TRUE)
    ELSE IF outcome # "ok"
    THEN SinkAnswer([rq EXCEPT !.downstream = outcome], 500, <<FALSE>>, TRUE)
    ELSE SinkAnswer([rq EXCEPT !.downstream = outcome], 200, <<TRUE>>, FALSE)

SinkReceive ==
    /\ sink.pc = "sent"
    /\ sink' = SinkPrefix(sink)
    /\ UNCHANGED <<serverVars, lastCheck, guard, form2, gate, stale, page, init, browser, form, poll>>

SinkDownstream ==
    /\ sink.pc = "calling"
    /\ \E outcome \in Downstream : sink' = SinkResult(sink, outcome)
    /\ UNCHANGED <<serverVars, lastCheck, guard, form2, gate, stale, page, init, browser, form, poll>>

\* ------------------------------------------- the form and the poll
POLL_INTERVAL == 5000
\* setInterval(..., 1000) of localTimer
TICK_INTERVAL == 1000

\* An interval that was due at `due` has fired now: its next firing is the
\* first end of a period after now.
NextFiring(due, period) == due + period * ((clock - due) \div period + 1)

\* The handler that reads the four fields this form sends.
FormSink == "part_002"

\* What the form sends as name and user_id_field (trimmed, not blank).
FormName == "ali"
FormUserId == "7"

\* The records the form of this page has had inserted.
FormRecords ==
    {rec \in RecordsOf(page.deviceId) :
        rec.name = FormName /\ rec.user_id_field = FormUserId}

\* fetch('/api/check-device-cooldown', {device_id, action: 'submit', name,
\* user_id_field})
SubmitCall(deviceId, name, userId) ==
    [NoReq EXCEPT !.pc = "sent", !.impl = "vercel", !.method = "POST",
                  !.device_id = deviceId, !.action = "submit",
                  !.name = name, !.user_id_field = userId]

\* recordServerSubmission: what it resolves to, given how the fetch ended
recordServerSubmissionAnyAnswer(c) == c.pc # "failed"
recordServerSubmission(c) ==
    IF c.pc = "failed" THEN FALSE
    ELSE IF c.status \notin 200..299 THEN FALSE
    ELSE IF c.body.success = Absent THEN FALSE ELSE c.body.success[1]

\* handleSubmit after recordServerSubmission: go on to the notification
\* endpoint, or throw into the catch block.
AfterRecordingAlwaysNotify(recorded) == "notify"
AfterRecording(recorded) == IF recorded THEN "notify" ELSE "throw"

\* !response.ok || !data.success, or the fetch threw
NotifiedOkAnyAnswer(k) == k.pc = "done"
NotifiedOk(k) ==
    /\ k.pc = "done"
    /\ k.status \in 200..299
    /\ k.success = <<TRUE>>

\* The visitor submits the form (it is rendered in `granted`, until
\* isSubmitted): handleSubmit sends its check.
FormSubmit ==
    /\ resp = NoReq
    /\ page.accessState = "granted"
    /\ ~form.isSubmitted
    /\ form.pc = "idle"
    /\ req["page"].pc = "idle"
    /\ \E filled \in BOOLEAN :
         form' = [form EXCEPT !.pc = "check", !.filled = filled, !.answer = NoAnswer]
    /\ req' = [req EXCEPT !["page"] = CheckCall(page.deviceId)]
    /\ UNCHANGED <<clock, ledger, resp, lastCheck, guard, form2, gate, stale, page, init, browser, poll, sink>>

\* handleSubmit after its check: if (inCooldown) return, then the test of
\* the four fields, then recordServerSubmission.
AfterSubmitCheckNoRecheck(inCooldown, filled) == IF ~filled THEN "incomplete" ELSE "submit"
AfterSubmitCheck(inCooldown, filled) ==
    IF inCooldown THEN "cooldown" ELSE IF ~filled THEN "incomplete" ELSE "submit"

\* handleSubmit resumes with the result of its check.
FormChecked ==
    /\ resp = NoReq
    /\ form.pc = "check"
    /\ req["page"].pc \in {"done", "failed"}
    /\ LET result == checkServerCooldown(req["page"])
           next == AfterSubmitCheck(result.inCooldown, form.filled)
       IN  IF next = "cooldown"
           THEN /\ page' = [page EXCEPT !.accessState = "cooldown",
                                        !.cooldownRemaining = result.remaining]
                /\ form' = [form EXCEPT !.pc = "idle"]
                /\ req' = [req EXCEPT !["page"] = NoReq]
           ELSE IF next = "incomplete"
           THEN /\ form' = [form EXCEPT !.pc = "idle"]
                /\ req' = [req EXCEPT !["page"] = NoReq]
                /\ UNCHANGED page
           ELSE /\ form' = [form EXCEPT !.pc = "submit", !.isSubmitting = TRUE]
                /\ req' = [req EXCEPT !["page"] =
                               SubmitCall(page.deviceId, FormName, FormUserId)]
                /\ UNCHANGED page
    /\ UNCHANGED <<clock, ledger, resp, lastCheck, guard, form2, gate, stale, init, browser, poll, sink>>

\* handleSubmit resumes with the result of recordServerSubmission.
FormRecorded ==
    /\ resp = NoReq
    /\ form.pc = "submit"
    /\ req["page"].pc \in {"done", "failed"}
    /\ LET recorded == recordServerSubmission(req["page"])
           answer == IF req["page"].pc = "failed" THEN [status |-> 0, success |-> Absent]
                     ELSE [status |-> req["page"].status,
                           success |-> req["page"].body.success]
       IN  IF AfterRecording(recorded) = "notify"
           THEN /\ \E configured \in BOOLEAN :
                     sink' = SinkRequest(FormSink, "POST", configured, configured,
                                         TRUE, FormFields)
                /\ form' = [form EXCEPT !.pc = "sink", !.answer = answer,
                                        !.sinkRequests = @ + 1]
           ELSE /\ form' = [form EXCEPT !.pc = "idle", !.isSubmitting = FALSE,
                                        !.answer = answer]
                /\ UNCHANGED sink
    /\ req' = [req EXCEPT !["page"] = NoReq]
    /\ UNCHANGED <<clock, ledger, resp, lastCheck, guard, form2, gate, stale, page, init, browser, poll>>

\* The fetch of /api/send-to-telegram rejects.
SinkNetFail ==
    /\ sink.pc \in {"sent", "done"}
    /\ sink' = [sink EXCEPT !.pc = "failed"]
    /\ UNCHANGED <<serverVars, lastCheck, guard, form2, gate, stale, page, init, browser, form, poll>>

\* handleSubmit resumes with the answer of the notification endpoint.
FormNotified ==
    /\ resp = NoReq
    /\ form.pc = "sink"
    /\ sink.pc \in {"done", "failed"}
    /\ form' = [form EXCEPT !.pc = "idle", !.isSubmitting = FALSE,
                            !.isSubmitted = NotifiedOk(sink)]
    /\ sink' = NoSink
    /\ UNCHANGED <<serverVars, lastCheck, guard, form2, gate, stale, page, init, browser, poll>>

\* The countdown effect runs once the state is `cooldown`: setInterval.
PollStarts ==
    /\ resp = NoReq
    /\ poll.pc = "off"
    /\ page.accessState = "cooldown"
    /\ poll' = [pc |-> "waiting", due |-> clock + POLL_INTERVAL,
                tick |-> clock + TICK_INTERVAL]
    /\ UNCHANGED <<serverVars, lastCheck, guard, form2, gate, stale, page, init, browser, form, sink>>

\* The interval fires; the next firing is the first period end after now.
PollFires ==
    /\ resp = NoReq
    /\ poll.pc = "waiting"
    /\ clock >= poll.due
    /\ req["page"].pc = "idle"
    /\ poll' = [poll EXCEPT !.pc = "check",
                            !.due = NextFiring(poll.due, POLL_INTERVAL)]
    /\ req' = [req EXCEPT !["page"] = CheckCall(page.deviceId)]
    /\ UNCHANGED <<clock, ledger, resp, lastCheck, guard, form2, gate, stale, page, init, browser, form, sink>>

\* if (!inCooldown) setAccessState('granted') in the interval callback
AfterPollRestart(state, inCooldown) == IF ~inCooldown THEN "checking" ELSE state
AfterPollKeepsState(state, inCooldown) == state
AfterPoll(state, inCooldown) == IF ~inCooldown THEN "granted" ELSE state

\* The interval callback resumes with the result of its check; leaving
\* `cooldown` runs the cleanup of the effect.
PollChecked ==
    /\ resp = NoReq
    /\ poll.pc = "check"
    /\ req["page"].pc \in {"done", "failed"}
    /\ LET result == checkServerCooldown(req["page"])
           state == AfterPoll(page.accessState, result.inCooldown)
       IN  /\ page' = [page EXCEPT !.accessState = state,
                                   !.cooldownRemaining =
                                       IF result.inCooldown THEN result.remaining ELSE 0]
           /\ poll' = IF state = "cooldown" THEN [poll EXCEPT !.pc = "waiting"]
                      ELSE FreshPoll
    /\ req' = [req EXCEPT !["page"] = NoReq]
    /\ UNCHANGED <<clock, ledger, resp, lastCheck, guard, form2, gate, stale, init, browser, form, sink>>

\* The times the form is followed at: a load, a poll period later (the
\* validation delay is over by then), and the same one cooldown later.
FormInstants == {c + f : c \in {0, CooldownMs}, f \in {0, POLL_INTERVAL}}

AdvanceForm ==
    /\ resp = NoReq
    /\ \E t \in FormInstants : t > clock /\ clock' = t
    /\ UNCHANGED <<ledger, req, resp, lastCheck, pageVars>>

\* One page load, from `checking` on, in a browser that may hold the session
\* marker of an earlier visit.
InitForm ==
    /\ clock = 0
    /\ ledger = {}
    /\ req = [r \in PageSlots |-> NoReq]
    /\ resp = NoReq
    /\ lastCheck = NoCheck
    /\ page = FreshPage
    /\ init = FreshInit
    /\ \E token \in Tokens, session \in BOOLEAN :
         browser = [FreshBrowser(token) EXCEPT !.session = session]
    /\ form = FreshForm
    /\ poll = FreshPoll
    /\ sink = NoSink
    /\ stale = NoStale
    /\ guard = NoGuard
    /\ form2 = NoSecond
    /\ gate = NoGate

NextForm ==
    \/ Fingerprinted
    \/ InitChecked
    \/ TimerFires
    \/ Rechecked
    \/ FormSubmit
    \/ FormChecked
    \/ FormRecorded
    \/ FormNotified
    \/ PollStarts
    \/ PollFires
    \/ PollChecked
    \/ SinkReceive
    \/ SinkDownstream
    \/ SinkNetFail
    \/ \E r \in Slots : ServerReceive(r)
    \/ \E r \in Slots : NetFail(r)
    \/ \E r \in Slots : CheckQuery(r) /\ UNCHANGED <<lastCheck, pageVars>>
    \/ \E r \in Slots : PreSubmitQuery(r) /\ UNCHANGED <<lastCheck, pageVars>>
    \/ \E r \in Slots : Insert(r) /\ UNCHANGED <<lastCheck, pageVars>>
    \/ page.deviceId # "" /\ OtherSubmit(page.deviceId)
    \/ AdvanceForm

SpecForm == InitForm /\ [][NextForm]_vars

\* ------------------------------------------- a second submit event
\* The form's onSubmit fires again while the first handleSubmit call still
\* awaits its check: the button is disabled by isSubmitting only, which that
\* call has not set yet. The second call sends its own check.
SecondSubmit ==
    /\ resp = NoReq
    /\ page.accessState = "granted"
    /\ ~form.isSubmitted
    /\ ~form.isSubmitting
    /\ form.pc = "check"
    /\ form2.pc = "idle"
    /\ form2' = [form2 EXCEPT !.pc = "check", !.filled = form.filled]
    /\ req' = [req EXCEPT !["second"] = CheckCall(page.deviceId)]
    /\ UNCHANGED <<clock, ledger, resp, lastCheck, guard, gate, stale, page, init, browser, formVars>>

\* The second call resumes with the result of its check.
SecondChecked ==
    /\ resp = NoReq
    /\ form2.pc = "check"
    /\ req["second"].pc \in {"done", "failed"}
    /\ LET result == checkServerCooldown(req["second"])
           next == AfterSubmitCheck(result.inCooldown, form2.filled)
       IN  IF next = "cooldown"
           THEN /\ page' = [page EXCEPT !.accessState = "cooldown",
                                        !.cooldownRemaining = result.remaining]
                /\ form2' = [form2 EXCEPT !.pc = "done"]
                /\ req' = [req EXCEPT !["second"] = NoReq]
                /\ UNCHANGED form
           ELSE IF next = "incomplete"
           THEN /\ form2' = [form2 EXCEPT !.pc = "done"]
                /\ req' = [req EXCEPT !["second"] = NoReq]
                /\ UNCHANGED <<page, form>>
           ELSE /\ form2' = [form2 EXCEPT !.pc = "submit"]
                /\ form' = [form EXCEPT !.isSubmitting = TRUE]
                /\ req' = [req EXCEPT !["second"] =
                               SubmitCall(page.deviceId, FormName, FormUserId)]
                /\ UNCHANGED page
    /\ UNCHANGED <<clock, ledger, resp, lastCheck, guard, gate, stale, init, browser, poll, sink>>

\* The second call resumes with the result of recordServerSubmission: not
\* recorded, it throws and its finally block resets isSubmitting; recorded,
\* it goes on to the notification endpoint, where it is followed no further.
SecondRecorded ==
    /\ resp = NoReq
    /\ form2.pc = "submit"
    /\ req["second"].pc \in {"done", "failed"}
    /\ LET recorded == recordServerSubmission(req["second"])
           answer == IF req["second"].pc = "failed" THEN [status |-> 0, success |-> Absent]
                     ELSE [status |-> req["second"].status,
                           success |-> req["second"].body.success]
       IN  IF AfterRecording(recorded) = "notify"
           THEN /\ form2' = [form2 EXCEPT !.pc = "sink", !.answer = answer]
                /\ UNCHANGED form
           ELSE /\ form2' = [form2 EXCEPT !.pc = "done", !.answer = answer]
                /\ form' = [form EXCEPT !.isSubmitting = FALSE]
    /\ req' = [req EXCEPT !["second"] = NoReq]
    /\ UNCHANGED <<clock, ledger, resp, lastCheck, guard, gate, stale, page, init, browser, poll, sink>>

DoubleSlots == {"page", "second"}

\* One page load with a valid token and no session marker, the device's id in
\* local storage.
InitDouble ==
    /\ clock = 0
    /\ ledger = {}
    /\ req = [r \in DoubleSlots |-> NoReq]
    /\ resp = NoReq
    /\ lastCheck = NoCheck
    /\ page = FreshPage
    /\ init = FreshInit
    /\ browser = [FreshBrowser("good") EXCEPT !.storedId = VisitorId]
    /\ form = FreshForm
    /\ poll = FreshPoll
    /\ sink = NoSink
    /\ stale = NoStale
    /\ guard = NoGuard
    /\ form2 = NoSecond
    /\ gate = NoGate

\* The page load and its form up to the end of both calls; the countdown
\* that follows a move into `cooldown` is left out.
NextDouble ==
    \/ Fingerprinted
    \/ InitChecked
    \/ TimerFires
    \/ Rechecked
    \/ FormSubmit
    \/ FormChecked
    \/ FormRecorded
    \/ FormNotified
    \/ SinkReceive
    \/ SinkDownstream
    \/ SinkNetFail
    \/ \E r \in Slots : ServerReceive(r)
    \/ \E r \in Slots : NetFail(r)
    \/ \E r \in Slots : CheckQuery(r) /\ UNCHANGED <<lastCheck, pageVars>>
    \/ \E r \in Slots : PreSubmitQuery(r) /\ UNCHANGED <<lastCheck, pageVars>>
    \/ \E r \in Slots : Insert(r) /\ UNCHANGED <<lastCheck, pageVars>>
    \/ AdvanceTimers
    \/ SecondSubmit
    \/ SecondChecked
    \/ SecondRecorded

SpecDouble == InitDouble /\ [][NextDouble]_vars

\* C35: a submit event that arrives while a handleSubmit call of the page is
\* in progress sends no ledger `submit` of its own and reaches no
\* notification request.
C35_OneSubmissionFlow ==
    /\ req["second"].action # "submit"
    /\ form2.pc \notin {"submit", "sink"}

\* Both calls have had their ledger `submit` accepted: two rows of the form
\* from one page.
BothRecorded ==
    /\ form2.pc = "sink"
    /\ form.sinkRequests >= 1
    /\ Cardinality(FormRecords) >= 2

\* ------------------------------------------------ leaving the page
\* handleRetry: navigate('/') and nothing else
RetrySessionCleared(session) == FALSE
RetrySession(session) == session

\* handleLogout, from the button of the granted screen: clearSession(), then
\* navigate('/') takes the component off the screen. Followed with no
\* handleSubmit of the page in flight.
HandleLogout ==
    /\ resp = NoReq
    /\ page.accessState = "granted"
    /\ form.pc = "idle"
    /\ browser' = [browser EXCEPT !.session = FALSE]
    /\ page' = Unmounted
    /\ form' = FreshForm
    /\ poll' = FreshPoll
    /\ UNCHANGED <<serverVars, lastCheck, guard, form2, gate, stale, init, sink>>

\* handleRetry, from the button of the cooldown, denied and expired screens:
\* navigate('/'). The cleanup of the countdown effect clears its intervals; a
\* poll still in flight resumes into setters of a component that is gone.
HandleRetry ==
    /\ resp = NoReq
    /\ page.accessState \in {"cooldown", "denied", "expired"}
    /\ browser' = [browser EXCEPT !.session = RetrySession(@)]
    /\ page' = Unmounted
    /\ form' = FreshForm
    /\ poll' = FreshPoll
    /\ req' = [req EXCEPT !["page"] = NoReq]
    /\ UNCHANGED <<clock, ledger, resp, lastCheck, guard, form2, gate, stale, init, sink>>

NextSession ==
    \/ NextForm
    \/ HandleLogout
    \/ HandleRetry
    \/ SessionExpires

SpecSession == InitForm /\ [][NextSession]_vars

\* The steps that may change the session marker.
LogoutStep ==
    /\ page.accessState = "granted" /\ page'.accessState = "unmounted"
    /\ form.pc = "idle"
ExpiryStep == UNCHANGED <<serverVars, page, init, form, poll, sink>>

\* C33: what hasValidSession() returns changes on three steps only: the
\* token validation that stores the marker, the marker's own expiry, and
\* the logout, which alone clears it. No step of a check, a submit or a
\* poll, no change of the ledger and no move into or out of `cooldown`
\* changes it.
C33_SessionIndependentOfLedger ==
    [][browser'.session # browser.session =>
          \/ /\ browser'.session
             /\ RecheckedStep
             /\ ~Reported.inCooldown
             /\ validateToken(browser.token).valid
          \/ ~browser'.session /\ LogoutStep
          \/ ~browser'.session /\ ExpiryStep]_vars

\* A session marker that has lasted through the form's check and submit, the
\* move into `cooldown` and a poll that came back.
C33_Witness ==
    /\ browser.session
    /\ page.accessState = "cooldown"
    /\ FormRecords # {}
    /\ poll.pc = "waiting"
    /\ poll.due >= poll.tick - TICK_INTERVAL + 2 * POLL_INTERVAL

\* ------------------------------------------ claims about the form flow
\* The changes of AccessState that section 4.5 lists.
ListedTransitions ==
    {<<"checking", t>> : t \in {"validating", "cooldown", "granted", "denied"}}
        \cup {<<"validating", t>> : t \in {"granted", "expired", "cooldown"}}
        \cup {<<"cooldown", "granted">>}

\* C11 as stated: within one page load every change of AccessState is a
\* listed one; nothing moves the state out of granted, denied or expired.
C11_OnlyListedTransitions ==
    [][page'.accessState # page.accessState =>
          <<page.accessState, page'.accessState>> \in ListedTransitions]_vars

\* C11: within one page load every change of AccessState is a listed one or
\* granted -> cooldown, which a form submit makes when its check reports the
\* device in cooldown; nothing moves the state out of denied or expired.
C11_TransitionsWithSubmitRecheck ==
    [][page'.accessState # page.accessState =>
          \/ <<page.accessState, page'.accessState>> \in ListedTransitions
          \/ /\ page.accessState = "granted"
             /\ page'.accessState = "cooldown"
             /\ form.pc = "check"
             /\ checkServerCooldown(req["page"]).inCooldown]_vars

\* A page that was granted by its token and that its own form submit put in
\* cooldown.
C11_Witness ==
    /\ page.accessState = "cooldown"
    /\ page.validationMessage = "ACCESS_GRANTED"
    /\ form.pc = "idle"

\* C34: the page is `granted` only if, in this page load, hasValidSession()
\* was asked and the session was restored, or validateToken was asked and
\* returned valid=true for the URL token; a page that was in `cooldown`
\* first is no exception.
C34_GrantedOnlyWithSessionOrToken ==
    page.accessState = "granted" =>
        \/ /\ page.validationMessage = "SESSION_RESTORED"
           /\ init.calls.hasValidSession
        \/ /\ page.validationMessage = "ACCESS_GRANTED"
           /\ init.calls.validateToken
           /\ validateToken(browser.token).valid

\* The step on which handleSubmit resumes with the result of its check.
FormCheckedStep == form.pc = "check" /\ form'.pc # "check"

\* C31: a form submit starts with a ledger check and nothing else; when that
\* check reports the device in cooldown, handleSubmit returns on the spot:
\* it sends no ledger `submit` and no request to the notification endpoint,
\* the ledger keeps its rows, and the page shows the cooldown with the
\* remaining time the check reported. A ledger `submit` of the page is in
\* flight only after a check that reported no cooldown.
C31_CooldownStopsSubmit ==
    [][/\ (form.pc = "idle" /\ form'.pc # "idle") =>
            /\ form'.pc = "check"
            /\ req'["page"].action = "check"
            /\ sink' = sink
       /\ (FormCheckedStep /\ Reported.inCooldown) =>
            /\ form'.pc = "idle"
            /\ ~form'.isSubmitting
            /\ req'["page"] = NoReq
            /\ ledger' = ledger
            /\ sink' = NoSink
            /\ form'.sinkRequests = form.sinkRequests
            /\ page'.accessState = "cooldown"
            /\ page'.cooldownRemaining = Reported.remaining
       /\ (FormCheckedStep /\ req'["page"].action = "submit") =>
            ~Reported.inCooldown]_vars

\* The form was submitted on a device that another client had put in
\* cooldown meanwhile: the page is in cooldown, the only row of the device is
\* not the form's, and no notification was ever requested.
C31_Witness ==
    /\ page.accessState = "cooldown"
    /\ page.validationMessage \in {"ACCESS_GRANTED", "SESSION_RESTORED"}
    /\ form.pc = "idle"
    /\ form.filled
    /\ form.sinkRequests = 0
    /\ FormRecords = {}
    /\ RecordsOf(page.deviceId) # {}

\* C12: a request is at the notification endpoint only while handleSubmit
\* waits for it, and then the ledger `submit` of the same handleSubmit call
\* has answered 200 with success=true and its record is in the ledger; the
\* page has sent no more notification requests than it has had records
\* inserted.
C12_SinkOnlyAfterRecordedSubmit ==
    /\ sink.pc # "idle" =>
          /\ form.pc = "sink"
          /\ form.answer.status = 200
          /\ form.answer.success = <<TRUE>>
    /\ form.sinkRequests <= Cardinality(FormRecords)

\* The notification endpoint is calling Telegram for this page's form.
C12_Witness ==
    /\ sink.pc = "calling"
    /\ form.pc = "sink"
    /\ form.sinkRequests = 1

\* The step on which handleSubmit resumes after the notification fetch, and
\* the fetch having failed: it threw, or the answer is not 2xx, or it does not
\* carry success=true.
FormNotifiedStep == form.pc = "sink" /\ form'.pc = "idle"
SinkFailed ==
    \/ sink.pc = "failed"
    \/ sink.status \notin 200..299
    \/ sink.success # <<TRUE>>

\* C13: when the notification call fails after the ledger `submit` recorded
\* the attempt, handling the failure removes nothing: the ledger is unchanged
\* and holds the record, the form is not marked submitted, and as long as
\* the record is inside the cooldown window every check for the device
\* answers inCooldown=true.
C13_NoRollbackOnSinkFailure ==
    [][(FormNotifiedStep /\ SinkFailed) =>
          /\ ledger' = ledger
          /\ FormRecords # {}
          /\ ~form'.isSubmitted
          /\ ~form'.isSubmitting
          /\ page'.accessState = page.accessState
          /\ Latest(page.deviceId) >= Threshold(clock) =>
                \A rows \in CheckRows(page.deviceId, Threshold(clock)) :
                    CheckBody(rows, clock).inCooldown = <<TRUE>>]_vars

\* The notification failed, the visitor submitted the form again and the
\* check of that submit found the record of the first attempt: the page is
\* in cooldown with its form never marked submitted.
C13_Witness ==
    /\ page.accessState = "cooldown"
    /\ form.pc = "idle"
    /\ form.sinkRequests = 1
    /\ ~form.isSubmitted
    /\ ledger # {}
    /\ FormRecords = ledger

\* The step on which handleSubmit resumes after recordServerSubmission, and
\* the ledger `submit` having failed: the fetch threw, or the answer is not
\* 2xx, or it does not carry success=true.
FormRecordedStep == form.pc = "submit" /\ form'.pc # "submit"
SubmitFailed ==
    \/ req["page"].pc = "failed"
    \/ req["page"].status \notin 200..299
    \/ req["page"].body.success # <<TRUE>>

\* C14: when the ledger `submit` call fails (the fetch throws, the status is
\* not 2xx, or the body has no success=true), handleSubmit ends there: no
\* request goes to the notification endpoint, isSubmitted stays false and
\* the access state and the rest of the page state do not change.
C14_FailedSubmitNotForwarded ==
    [][(FormRecordedStep /\ SubmitFailed) =>
          /\ sink' = NoSink
          /\ form'.sinkRequests = form.sinkRequests
          /\ form'.pc = "idle"
          /\ ~form'.isSubmitted
          /\ ~form'.isSubmitting
          /\ page' = page]_vars

\* The ledger rejected the submit of the form with 403 (another tab of the
\* device submitted after the form's check): the form is idle again, not
\* submitted, still `granted`, and nothing was sent to the endpoint.
C14_Witness ==
    /\ form.pc = "idle"
    /\ form.answer.status = 403
    /\ form.sinkRequests = 0
    /\ ~form.isSubmitted
    /\ page.accessState = "granted"
    /\ sink = NoSink

\* The step on which the page resumes with the outcome of a check (after its
\* first check, the re-check, the check of a form submit or a poll), and the
\* check having failed: the fetch threw or the answer is not 2xx.
CheckConsumedStep ==
    /\ req["page"].pc \in {"done", "failed"}
    /\ req'["page"] # req["page"]
    /\ req'["page"].pc # "failed"
    /\ form.pc # "submit"
CheckFailed ==
    \/ req["page"].pc = "failed"
    \/ req["page"].status \notin 200..299

\* C15: when a check of the page throws or is answered with a status that is
\* not 2xx, checkServerCooldown resolves to {inCooldown: false, remaining: 0}
\* and the step that takes this result never leaves the page in `cooldown`:
\* it does not enter `cooldown`, and a poll leaves it.
C15_FailedCheckIsNoCooldown ==
    [][(CheckConsumedStep /\ CheckFailed) =>
          /\ checkServerCooldown(req["page"]) = [inCooldown |-> FALSE, remaining |-> 0]
          /\ page'.accessState # "cooldown"
          /\ page'.cooldownRemaining = IF page.accessState = "cooldown" THEN 0
                                       ELSE page.cooldownRemaining]_vars

\* The page was put in cooldown on load by a record made at time 0, and
\* before that record left the window a poll moved it to `granted`: that
\* poll can only have failed.
C15_Witness ==
    /\ page.accessState = "granted"
    /\ page.validationMessage = "COOLDOWN_ACTIVE"
    /\ clock <= CooldownMs
    /\ \E rec \in RecordsOf(page.deviceId) : rec.submitted_at = 0

\* ------------------------------------ the endpoint under any requests
SinkMethods == {"OPTIONS", "GET", "POST"}

SinkArrive ==
    /\ sink.pc = "idle"
    /\ \E impl \in SinkImpls, method \in SinkMethods, token \in BOOLEAN,
          chat \in BOOLEAN, hasBody \in BOOLEAN, fields \in SUBSET FormFields :
         sink' = SinkRequest(impl, method, token, chat, hasBody, fields)
    /\ UNCHANGED <<serverVars, lastCheck, guard, form2, gate, stale, page, init, browser, form, poll>>

SinkSent ==
    /\ sink.pc = "done"
    /\ sink' = NoSink
    /\ UNCHANGED <<serverVars, lastCheck, guard, form2, gate, stale, page, init, browser, form, poll>>

NextSink ==
    \/ SinkArrive
    \/ SinkReceive
    \/ SinkDownstream
    \/ SinkSent

SpecSink == InitLedger /\ [][NextSink]_vars

Configured == sink.TELEGRAM_BOT_TOKEN /\ sink.TELEGRAM_CHAT_ID

\* The endpoint has answered a POST whose body lacks a required field.
AnsweredIncomplete ==
    /\ sink.pc = "done"
    /\ sink.method = "POST"
    /\ ~(RequiredFields(sink.impl) \subseteq sink.fields)

\* C16 as stated: a request with `id` or another required field missing is
\* answered 400 and makes no call to Telegram, whatever the configuration.
C16_IncompleteIs400 ==
    AnsweredIncomplete => (sink.status = 400 /\ sink.calls = 0)

\* C16: a POST whose body lacks `id` or another required field makes no call
\* to Telegram in any configuration; it is answered 400 when both
\* credentials are configured and the request has a body, and 500 when a
\* credential is missing or there is no body at all.
C16_IncompleteNeverForwarded ==
    AnsweredIncomplete =>
        /\ sink.calls = 0
        /\ sink.downstream = "none"
        /\ sink.success = <<FALSE>>
        /\ sink.status = IF Configured /\ sink.hasBody THEN 400 ELSE 500

\* Configured, a body with everything but `id`: 400.
C16_Witness ==
    /\ AnsweredIncomplete
    /\ Configured
    /\ sink.fields = FormFields \ {"id"}
    /\ sink.status = 400

\* C17: the endpoint answers 200 {success: true} only when Telegram accepted
\* the message; a POST with a credential missing, a message Telegram
\* rejected and a thrown error each give 500 {success: false, error}.
C17_SuccessOnlyWhenAccepted ==
    sink.pc = "done" =>
        /\ (sink.status = 200 /\ sink.success = <<TRUE>>) =>
               (sink.downstream = "ok" /\ sink.calls = 1 /\ Configured)
        /\ sink.success = <<TRUE>> => sink.status = 200
        /\ (sink.method = "POST" /\ ~Configured) =>
               (sink.status = 500 /\ sink.success = <<FALSE>> /\ sink.error)
        /\ sink.downstream \in {"rejected", "throws"} =>
               (sink.status = 500 /\ sink.success = <<FALSE>> /\ sink.error)
        /\ (sink.method = "POST" /\ Configured /\ ~sink.hasBody) =>
               (sink.status = 500 /\ sink.success = <<FALSE>> /\ sink.error)

\* Telegram accepted the message and the endpoint answered 200 {success: true}.
C17_Witness ==
    /\ sink.pc = "done"
    /\ sink.downstream = "ok"
    /\ sink.status = 200
    /\ sink.success = <<TRUE>>

\* ------------------------------------------ the countdown while in cooldown
\* How long the countdown is followed, in periods of localTimer.
MaxTicks == 12

\* setInterval(..., 10000) of serverTimer
GUARD_POLL_INTERVAL == 10000

\* getOrCreateDeviceId(): the id kept under 'device-unique-id'
GuardDeviceId == "d2"

\* A CooldownGuard as it is rendered first: useState(true) of isChecking.
FreshGuard == [NoGuard EXCEPT !.pc = "start", !.isChecking = TRUE]

\* Math.max(0, prev - 1000)
TickedNoClamp(prev) == prev - TICK_INTERVAL
Ticked(prev) == IF prev - TICK_INTERVAL > 0 THEN prev - TICK_INTERVAL ELSE 0

\* localTimer of SecurePage fires: setCooldownRemaining(prev => ...). The
\* callback touches nothing but the remaining time.
PageTick ==
    /\ resp = NoReq
    /\ poll.pc \in {"waiting", "check"}
    /\ clock >= poll.tick
    /\ page' = [page EXCEPT !.cooldownRemaining = Ticked(@)]
    /\ poll' = [poll EXCEPT !.tick = NextFiring(poll.tick, TICK_INTERVAL)]
    /\ UNCHANGED <<serverVars, lastCheck, guard, form2, gate, init, browser, form, sink, stale>>

\* The mount effect of CooldownGuard: getOrCreateDeviceId(), setDeviceId(id),
\* and checkServerCooldown(id) sends its request.
GuardMounts ==
    /\ resp = NoReq
    /\ guard.pc = "start"
    /\ guard' = [guard EXCEPT !.pc = "mount", !.deviceId = GuardDeviceId]
    /\ req' = [req EXCEPT !["guard"] = CheckCall(GuardDeviceId)]
    /\ UNCHANGED <<clock, ledger, resp, lastCheck, form2, gate, page, init, browser, formVars, stale>>

\* The two intervals of the guard's countdown effect after a render with
\* this inCooldown: set when it has become true, kept while it stays true,
\* cleared by the cleanup when it is false.
GuardTimers(g, inCooldown) ==
    IF ~inCooldown THEN [g EXCEPT !.serverDue = None, !.localDue = None]
    ELSE IF g.serverDue # None THEN g
    ELSE [g EXCEPT !.serverDue = clock + GUARD_POLL_INTERVAL,
                   !.localDue = clock + TICK_INTERVAL]

\* checkCooldown resumes with the result of its check: setInCooldown(isCooling),
\* setCooldownRemaining(remaining), setIsChecking(false). The guard's
\* checkServerCooldown resolves as the page's does: {inCooldown: false,
\* remaining: 0} on a rejected fetch and on a status outside 2xx.
GuardChecked ==
    /\ resp = NoReq
    /\ guard.pc = "mount"
    /\ req["guard"].pc \in {"done", "failed"}
    /\ LET result == checkServerCooldown(req["guard"])
       IN  guard' = GuardTimers([guard EXCEPT !.pc = "idle", !.isChecking = FALSE,
                                              !.inCooldown = result.inCooldown,
                                              !.cooldownRemaining = result.remaining],
                                result.inCooldown)
    /\ req' = [req EXCEPT !["guard"] = NoReq]
    /\ UNCHANGED <<clock, ledger, resp, lastCheck, form2, gate, page, init, browser, formVars, stale>>

\* serverTimer fires and its callback sends a check.
GuardPollFires ==
    /\ resp = NoReq
    /\ guard.pc = "idle"
    /\ guard.serverDue # None
    /\ clock >= guard.serverDue
    /\ guard' = [guard EXCEPT !.pc = "check",
                              !.serverDue = NextFiring(guard.serverDue, GUARD_POLL_INTERVAL)]
    /\ req' = [req EXCEPT !["guard"] = CheckCall(guard.deviceId)]
    /\ UNCHANGED <<clock, ledger, resp, lastCheck, form2, gate, page, init, browser, formVars, stale>>

\* The callback of serverTimer resumes with the result of its check, whether
\* or not the intervals are still set by then.
GuardPollChecked ==
    /\ resp = NoReq
    /\ guard.pc = "check"
    /\ req["guard"].pc \in {"done", "failed"}
    /\ LET result == checkServerCooldown(req["guard"])
       IN  guard' = IF ~result.inCooldown
                    THEN GuardTimers([guard EXCEPT !.pc = "idle", !.inCooldown = FALSE,
                                                   !.cooldownRemaining = 0], FALSE)
                    ELSE [guard EXCEPT !.pc = "idle",
                                       !.cooldownRemaining = result.remaining]
    /\ req' = [req EXCEPT !["guard"] = NoReq]
    /\ UNCHANGED <<clock, ledger, resp, lastCheck, form2, gate, page, init, browser, formVars, stale>>

\* if (newValue === 0) setInCooldown(false) inside the updater of localTimer
GuardAfterTick(inCooldown, newValue) == IF newValue = 0 THEN FALSE ELSE inCooldown

\* localTimer of the guard fires.
GuardTick ==
    /\ resp = NoReq
    /\ guard.localDue # None
    /\ clock >= guard.localDue
    /\ LET newValue == Ticked(guard.cooldownRemaining)
           blocking == GuardAfterTick(guard.inCooldown, newValue)
       IN  guard' = GuardTimers([guard EXCEPT !.cooldownRemaining = newValue,
                                              !.inCooldown = blocking,
                                              !.localDue = NextFiring(guard.localDue,
                                                                      TICK_INTERVAL)],
                                blocking)
    /\ UNCHANGED <<serverVars, lastCheck, form2, gate, page, init, browser, formVars, stale>>

\* The countdown is followed from one guard poll period and one tick before
\* the end of the cooldown of a row submitted at 0, second by second.
CountdownStart == CooldownMs - GUARD_POLL_INTERVAL - TICK_INTERVAL

\* An interval of the page or of the guard is due and has not fired yet.
TimerDue ==
    \/ poll.pc # "off" /\ clock >= poll.tick
    \/ poll.pc = "waiting" /\ clock >= poll.due
    \/ guard.localDue # None /\ clock >= guard.localDue
    \/ guard.pc = "idle" /\ guard.serverDue # None /\ clock >= guard.serverDue

\* A second passes; the intervals fire on time.
AdvanceCountdown ==
    /\ resp = NoReq
    /\ ~TimerDue
    /\ clock < CountdownStart + MaxTicks * TICK_INTERVAL
    /\ clock' = clock + TICK_INTERVAL
    /\ UNCHANGED <<ledger, req, resp, lastCheck, pageVars>>

\* The row a device left when it submitted at 0.
EarlierRecord(d) ==
    [id |-> 1, device_id |-> d, submitted_at |-> 0,
     name |-> IF PayloadOf(d)[1] = "" THEN "null" ELSE PayloadOf(d)[1],
     user_id_field |-> IF PayloadOf(d)[2] = "" THEN "null" ELSE PayloadOf(d)[2]]

CountdownSlots == {"page", "guard"}

\* Either component as it is rendered first on a device that submitted at 0
\* and is late in its cooldown: the page with a valid token and the device's
\* id in local storage, or the guard.
InitCountdown ==
    /\ clock = CountdownStart
    /\ req = [r \in CountdownSlots |-> NoReq]
    /\ resp = NoReq
    /\ lastCheck = NoCheck
    /\ \/ /\ page = FreshPage
          /\ init = FreshInit
          /\ browser = [FreshBrowser("good") EXCEPT !.storedId = VisitorId]
          /\ guard = NoGuard
          /\ ledger = {EarlierRecord(VisitorId)}
       \/ /\ page = Unmounted
          /\ init = [FreshInit EXCEPT !.pc = "none"]
          /\ browser = FreshBrowser("")
          /\ guard = FreshGuard
          /\ ledger = {EarlierRecord(GuardDeviceId)}
    /\ form = FreshForm
    /\ form2 = NoSecond
    /\ gate = NoGate
    /\ poll = FreshPoll
    /\ sink = NoSink
    /\ stale = NoStale

NextCountdown ==
    \/ Fingerprinted
    \/ InitChecked
    \/ TimerFires
    \/ Rechecked
    \/ PollStarts
    \/ PollFires
    \/ PollChecked
    \/ PageTick
    \/ GuardMounts
    \/ GuardChecked
    \/ GuardPollFires
    \/ GuardPollChecked
    \/ GuardTick
    \/ \E r \in Slots : ServerReceive(r)
    \/ \E r \in Slots : NetFail(r)
    \/ \E r \in Slots : CheckQuery(r) /\ UNCHANGED <<lastCheck, pageVars>>
    \/ \E d \in {page.deviceId, guard.deviceId} \ {""} : OtherSubmit(d)
    \/ AdvanceCountdown

SpecCountdown == InitCountdown /\ [][NextCountdown]_vars

\* ------------------------------------------ the countdown comes to an end
\* A second passes, also beyond the seconds followed as long as an interval
\* or the validation timeout is still to fire; beyond them a request is
\* answered within the second it was sent in.
AdvanceCountdownLive ==
    /\ resp = NoReq
    /\ ~TimerDue
    /\ \/ clock < CountdownStart + MaxTicks * TICK_INTERVAL
       \/ /\ \A r \in Slots : req[r].pc = "idle"
          /\ \/ poll.pc # "off"
             \/ guard.localDue # None
             \/ init.pc = "timer" /\ clock < init.due
    /\ clock' = clock + TICK_INTERVAL
    /\ UNCHANGED <<ledger, req, resp, lastCheck, pageVars>>

\* The countdown with no further submit for the device.
NextCountdownLive ==
    \/ Fingerprinted
    \/ InitChecked
    \/ TimerFires
    \/ Rechecked
    \/ PollStarts
    \/ PollFires
    \/ PollChecked
    \/ PageTick
    \/ GuardMounts
    \/ GuardChecked
    \/ GuardPollFires
    \/ GuardPollChecked
    \/ GuardTick
    \/ \E r \in Slots : ServerReceive(r)
    \/ \E r \in Slots : NetFail(r)
    \/ \E r \in Slots : CheckQuery(r) /\ UNCHANGED <<lastCheck, pageVars>>
    \/ AdvanceCountdownLive

\* The clock advances, the intervals fire when due, every check returns
\* and every callback resumes with its result.
FairCountdown ==
    /\ WF_vars(AdvanceCountdownLive)
    /\ WF_vars(NetworkReturns)
    /\ WF_vars(Fingerprinted) /\ WF_vars(InitChecked)
    /\ WF_vars(TimerFires) /\ WF_vars(Rechecked)
    /\ WF_vars(PollStarts) /\ WF_vars(PollFires) /\ WF_vars(PollChecked)
    /\ WF_vars(PageTick)
    /\ WF_vars(GuardMounts) /\ WF_vars(GuardChecked)
    /\ WF_vars(GuardPollFires) /\ WF_vars(GuardPollChecked)
    /\ WF_vars(GuardTick)

SpecCountdownLive == InitCountdown /\ [][NextCountdownLive]_vars /\ FairCountdown

\* ------------------------------------------- claims about the countdown
PollCheckedStep == poll.pc = "check" /\ poll'.pc # "check"
GuardPollCheckedStep == guard.pc = "check" /\ guard'.pc = "idle"
PageTickStep == poll.tick # None /\ poll'.tick # None /\ poll'.tick # poll.tick
GuardTickStep ==
    guard.localDue # None /\ guard'.localDue # guard.localDue /\ guard'.pc = guard.pc

\* What the check that just came back reports to the guard.
GuardReported == checkServerCooldown(req["guard"])

\* The page leaves `cooldown` only for `granted`, and only on the step on
\* which a poll resumes with a check that reported inCooldown=false.
PageLeavesCooldownByPoll ==
    [][(page.accessState = "cooldown" /\ page'.accessState # "cooldown") =>
           /\ page'.accessState = "granted"
           /\ PollCheckedStep
           /\ ~Reported.inCooldown]_vars

\* C29: the page leaves `cooldown` for `granted`, and the guard stops
\* blocking, only on the step on which a remote check that reported
\* inCooldown=false comes back; a tick of the local countdown unblocks
\* neither.
C29_OnlyRemoteCheckUnblocks ==
    [][/\ (page.accessState = "cooldown" /\ page'.accessState # "cooldown") =>
            /\ page'.accessState = "granted"
            /\ PollCheckedStep
            /\ ~Reported.inCooldown
       /\ (guard.inCooldown /\ ~guard'.inCooldown) =>
            /\ GuardPollCheckedStep
            /\ ~GuardReported.inCooldown]_vars

\* C30: while the page is in `cooldown` or the guard blocks, a poll that
\* comes back sets the tracked remaining time to what the check reported
\* (the server's value with inCooldown=true, 0 otherwise), whatever the
\* local countdown had reached; a tick of the local timer lowers the tracked
\* remaining time by 1000 ms, to 0 when less than that is left, and never
\* leaves it negative.
C30_PollOverwritesTickClamps ==
    [][/\ PollCheckedStep =>
            page'.cooldownRemaining =
                IF Reported.inCooldown THEN Reported.remaining ELSE 0
       /\ GuardPollCheckedStep =>
            guard'.cooldownRemaining =
                IF GuardReported.inCooldown THEN GuardReported.remaining ELSE 0
       /\ PageTickStep =>
            /\ page'.accessState = "cooldown"
            /\ page'.cooldownRemaining >= 0
            /\ page'.cooldownRemaining =
                   IF page.cooldownRemaining >= TICK_INTERVAL
                   THEN page.cooldownRemaining - TICK_INTERVAL ELSE 0
       /\ GuardTickStep =>
            /\ guard'.cooldownRemaining >= 0
            /\ guard'.cooldownRemaining =
                   IF guard.cooldownRemaining >= TICK_INTERVAL
                   THEN guard.cooldownRemaining - TICK_INTERVAL ELSE 0]_vars

\* The page in `cooldown` after its ticks had brought the remaining time
\* down to the end of the old cooldown: a poll has come back and put the
\* whole cooldown of a row submitted since in its place.
C30_Witness ==
    /\ page.accessState = "cooldown"
    /\ poll.pc = "waiting"
    /\ poll.tick > CooldownMs
    /\ page.cooldownRemaining = CooldownMs

\* The page in `cooldown` comes to `granted`; the guard that is checking or
\* blocking comes to render its children.
CountdownEnds ==
    /\ (page.accessState = "cooldown") ~> (page.accessState = "granted")
    /\ (guard.isChecking \/ guard.inCooldown) ~> (~guard.isChecking /\ ~guard.inCooldown)

\* The end of the cooldown of the device's latest row.
CooldownEnd(d) == Latest(d) + CooldownMs

\* C37 as stated: with no further submit, the clock advancing and the polls
\* firing, the page leaves `cooldown` for `granted` and the guard comes to
\* render its children, the page at the latest on the first poll that
\* completes after submitted_at + cooldownDuration.
C37_LeavesAtFirstPollCompletedAfterEnd ==
    /\ CountdownEnds
    /\ [][(PollCheckedStep /\ page.accessState = "cooldown"
             /\ clock > CooldownEnd(page.deviceId)) =>
            page'.accessState = "granted"]_vars

\* C37: with no further submit, the clock advancing and the polls firing,
\* the page leaves `cooldown` for `granted` and the guard comes to render its
\* children; the page leaves at the latest on the first poll whose request
\* reaches the server after submitted_at + cooldownDuration, and so does the
\* guard if its own countdown has not unblocked it before.
C37_LeavesAtFirstPollSentAfterEnd ==
    /\ CountdownEnds
    /\ [][(PollCheckedStep /\ page.accessState = "cooldown"
             /\ req["page"].h.at0 > CooldownEnd(page.deviceId)) =>
            page'.accessState = "granted"]_vars
    /\ [][(GuardPollCheckedStep
             /\ req["guard"].h.at0 > CooldownEnd(guard.deviceId)) =>
            ~guard'.inCooldown]_vars

\* The page granted by a poll that the server received after the end of the
\* cooldown, the row still in the table.
C37_Witness ==
    /\ page.accessState = "granted"
    /\ page.validationMessage = "COOLDOWN_ACTIVE"
    /\ poll.pc = "off"
    /\ RecordsOf(page.deviceId) # {}
    /\ clock > CooldownEnd(page.deviceId)

\* -------------------------- the page that keeps its cooldown in localStorage
\* const COOLDOWN_DURATION = 30 * 60 * 1000 of this variant of the page
COOLDOWN_DURATION == 30 * 60 * 1000

\* Date.now().toString() as localStorage keeps it
Stamp(now) == [kind |-> "num", time |-> now]

\* checkCooldown(): its result and what it leaves under the key. It removes
\* a value parseInt gives NaN for and one whose cooldown is over; an access
\* that throws is caught.
checkCooldown(marker, now) ==
    IF marker.kind \in {"throws", "none", "empty"}
    THEN [inCooldown |-> FALSE, remaining |-> 0, marker |-> marker]
    ELSE IF marker.kind = "nan"
    THEN [inCooldown |-> FALSE, remaining |-> 0, marker |-> NoMarker]
    ELSE IF now - marker.time < COOLDOWN_DURATION
    THEN [inCooldown |-> TRUE, remaining |-> COOLDOWN_DURATION - (now - marker.time),
          marker |-> marker]
    ELSE [inCooldown |-> FALSE, remaining |-> 0, marker |-> NoMarker]

\* The fields this form sends: name and id.
LocalFields == {"name", "id"}

\* handleSubmit after the await of the notification: what is under the key
\* then and whether isSubmitted is set; setItem may throw into the catch.
AfterNotificationMarksAlways(ok, marker, now) ==
    IF marker.kind = "throws" THEN [marker |-> marker, isSubmitted |-> FALSE]
    ELSE [marker |-> Stamp(now), isSubmitted |-> ok]
AfterNotification(ok, marker, now) ==
    IF ~ok \/ marker.kind = "throws" THEN [marker |-> marker, isSubmitted |-> FALSE]
    ELSE [marker |-> Stamp(now), isSubmitted |-> TRUE]

\* The first time followed: one second before the cooldown of a submission
\* made at 0 is over.
LocalStart == COOLDOWN_DURATION - TICK_INTERVAL
\* Time is followed in half periods of the countdown interval.
LocalStep == TICK_INTERVAL \div 2
\* The submissions followed of one page load.
MaxAttempts == 2

\* What the key may hold when the page is opened.
LocalMarkers ==
    {NoMarker, [kind |-> "empty", time |-> None], [kind |-> "nan", time |-> None],
     [kind |-> "throws", time |-> None], Stamp(0), Stamp(LocalStart)}

\* getInitialState() and the useState calls of the first render.
LocalMounts ==
    /\ page = Unmounted
    /\ LET c == checkCooldown(browser.marker, clock)
       IN  /\ page' = [FreshPage EXCEPT
                         !.accessState = IF c.inCooldown THEN "cooldown" ELSE "validating",
                         !.validationMessage = IF c.inCooldown THEN "COOLDOWN_ACTIVE" ELSE "",
                         !.cooldownRemaining = c.remaining]
           /\ browser' = [browser EXCEPT !.marker = c.marker]
    /\ init' = [FreshInit EXCEPT !.pc = "effect"]
    /\ UNCHANGED <<serverVars, lastCheck, guard, form2, gate, stale, formVars>>

\* The validation effect of the first render.
LocalEffect ==
    /\ init.pc = "effect"
    /\ LET c == checkCooldown(browser.marker, clock)
       IN  IF page.accessState = "cooldown"
           THEN /\ init' = [init EXCEPT !.pc = "done"]
                /\ UNCHANGED <<page, browser>>
           ELSE IF c.inCooldown
           THEN /\ page' = [page EXCEPT !.accessState = "cooldown",
                                        !.cooldownRemaining = c.remaining,
                                        !.validationMessage = "COOLDOWN_ACTIVE"]
                /\ init' = [init EXCEPT !.pc = "done"]
                /\ UNCHANGED browser
           ELSE IF hasValidSession
           THEN /\ page' = [page EXCEPT !.accessState = "granted",
                                        !.validationMessage = "SESSION_RESTORED"]
                /\ init' = [init EXCEPT !.pc = "done"]
                /\ browser' = [browser EXCEPT !.marker = c.marker]
           ELSE IF browser.token = ""
           THEN /\ page' = [page EXCEPT !.accessState = "denied",
                                        !.validationMessage = "NO_TOKEN_PROVIDED"]
                /\ init' = [init EXCEPT !.pc = "done"]
                /\ browser' = [browser EXCEPT !.marker = c.marker]
           ELSE /\ init' = [init EXCEPT !.pc = "timer", !.due = clock + VALIDATION_DELAY]
                /\ browser' = [browser EXCEPT !.marker = c.marker]
                /\ UNCHANGED page
    /\ UNCHANGED <<serverVars, lastCheck, guard, form2, gate, stale, formVars>>

\* The validation timeout fires.
LocalTimerFires ==
    /\ init.pc = "timer"
    /\ clock >= init.due
    /\ LET c == checkCooldown(browser.marker, clock)
       IN  IF c.inCooldown
           THEN /\ page' = [page EXCEPT !.accessState = "cooldown",
                                        !.cooldownRemaining = c.remaining,
                                        !.validationMessage = "COOLDOWN_ACTIVE"]
                /\ UNCHANGED browser
           ELSE IF validateToken(browser.token).valid
           THEN /\ page' = [page EXCEPT !.accessState = "granted",
                                        !.validationMessage = "ACCESS_GRANTED"]
                /\ browser' = [browser EXCEPT !.marker = c.marker, !.session = TRUE]
           ELSE /\ page' = [page EXCEPT !.accessState = "expired",
                                        !.validationMessage = "TOKEN_EXPIRED"]
                /\ browser' = [browser EXCEPT !.marker = c.marker]
    /\ init' = [init EXCEPT !.pc = "done"]
    /\ UNCHANGED <<serverVars, lastCheck, guard, form2, gate, stale, formVars>>

\* The countdown effect runs once the state is `cooldown`: setInterval.
LocalCountdownStarts ==
    /\ page.accessState = "cooldown"
    /\ poll.pc = "off"
    /\ poll' = [pc |-> "waiting", due |-> None, tick |-> clock + TICK_INTERVAL]
    /\ UNCHANGED <<serverVars, lastCheck, guard, form2, gate, stale, page, init, browser, form, sink>>

\* The interval fires: checkCooldown, then granted or the new remaining time.
LocalTick ==
    /\ poll.pc = "waiting"
    /\ clock >= poll.tick
    /\ LET c == checkCooldown(browser.marker, clock)
       IN  /\ browser' = [browser EXCEPT !.marker = c.marker]
           /\ IF ~c.inCooldown
              THEN /\ page' = [page EXCEPT !.accessState = "granted",
                                           !.cooldownRemaining = 0]
                   /\ poll' = FreshPoll
              ELSE /\ page' = [page EXCEPT !.cooldownRemaining = c.remaining]
                   /\ poll' = [poll EXCEPT !.tick = NextFiring(poll.tick, TICK_INTERVAL)]
    /\ UNCHANGED <<serverVars, lastCheck, guard, form2, gate, stale, init, form, sink>>

\* The visitor submits the form (rendered in `granted` until isSubmitted,
\* its button disabled while isSubmitting): handleSubmit up to its fetch.
LocalSubmit ==
    /\ page.accessState = "granted"
    /\ ~form.isSubmitted
    /\ ~form.isSubmitting
    /\ form.sinkRequests < MaxAttempts
    /\ \E filled \in BOOLEAN :
         LET c == checkCooldown(browser.marker, clock)
         IN  IF c.inCooldown
             THEN UNCHANGED <<browser, form, sink>>
             ELSE /\ browser' = [browser EXCEPT !.marker = c.marker]
                  /\ IF ~filled
                     THEN /\ form' = [form EXCEPT !.filled = FALSE]
                          /\ UNCHANGED sink
                     ELSE /\ form' = [form EXCEPT !.pc = "sink", !.filled = TRUE,
                                                  !.isSubmitting = TRUE,
                                                  !.sinkRequests = @ + 1]
                          /\ \E impl \in SinkImpls, configured \in BOOLEAN :
                               sink' = SinkRequest(impl, "POST", configured, configured,
                                                   TRUE, LocalFields)
    /\ UNCHANGED <<serverVars, lastCheck, guard, form2, gate, stale, page, init, poll>>

\* handleSubmit resumes with the answer of the notification endpoint, or in
\* its catch block when the fetch rejected.
LocalNotified ==
    /\ form.pc = "sink"
    /\ sink.pc \in {"done", "failed"}
    /\ LET after == AfterNotification(NotifiedOk(sink), browser.marker, clock)
       IN  /\ browser' = [browser EXCEPT !.marker = after.marker]
           /\ form' = [form EXCEPT !.pc = "idle", !.isSubmitting = FALSE,
                                   !.isSubmitted = after.isSubmitted]
    /\ sink' = NoSink
    /\ UNCHANGED <<serverVars, lastCheck, guard, form2, gate, stale, page, init, poll>>

\* The visitor loads the page again.
LocalReload ==
    /\ page # Unmounted
    /\ form.pc = "idle"
    /\ page' = Unmounted
    /\ init' = FreshInit
    /\ form' = FreshForm
    /\ poll' = FreshPoll
    /\ UNCHANGED <<serverVars, lastCheck, guard, form2, gate, stale, browser, sink>>

\* Time passes; the effects of a render have run by then.
AdvanceLocal ==
    /\ init.pc # "effect"
    /\ clock < LocalStart + MaxTicks * LocalStep
    /\ clock' = clock + LocalStep
    /\ UNCHANGED <<ledger, req, resp, lastCheck, pageVars>>

InitLocal ==
    /\ clock = LocalStart
    /\ ledger = {}
    /\ req = [r \in PageSlots |-> NoReq]
    /\ resp = NoReq
    /\ lastCheck = NoCheck
    /\ page = Unmounted
    /\ init = FreshInit
    /\ \E token \in Tokens, m \in LocalMarkers :
         browser = [FreshBrowser(token) EXCEPT !.marker = m]
    /\ form = FreshForm
    /\ poll = FreshPoll
    /\ sink = NoSink
    /\ stale = NoStale
    /\ guard = NoGuard
    /\ form2 = NoSecond
    /\ gate = NoGate

NextLocal ==
    \/ LocalMounts
    \/ LocalEffect
    \/ LocalTimerFires
    \/ LocalCountdownStarts
    \/ LocalTick
    \/ LocalSubmit
    \/ SinkReceive
    \/ SinkDownstream
    \/ SinkNetFail
    \/ LocalNotified
    \/ LocalReload
    \/ AdvanceLocal

SpecLocal == InitLocal /\ [][NextLocal]_vars

LocalNotifiedStep == form.pc = "sink" /\ form'.pc = "idle"

\* C38: in the local-storage variant the marker is written only when the
\* notification endpoint answered success. A notification that failed or was
\* rejected leaves what is under the key as it was, the checkCooldown that
\* follows reports no cooldown, as the one before the attempt did, and the
\* form is there to be submitted again at once.
C38_MarkerOnlyAfterSuccess ==
    [][/\ (browser'.marker # browser.marker /\ browser'.marker # NoMarker) =>
            /\ LocalNotifiedStep
            /\ NotifiedOk(sink)
            /\ browser'.marker = Stamp(clock)
       /\ (LocalNotifiedStep /\ ~NotifiedOk(sink)) =>
            /\ browser'.marker = browser.marker
            /\ checkCooldown(browser'.marker, clock') =
                  [inCooldown |-> FALSE, remaining |-> 0, marker |-> browser.marker]
            /\ page'.accessState = "granted"
            /\ ~form'.isSubmitting /\ ~form'.isSubmitted]_vars

\* The endpoint rejected a complete form (Telegram refused the message) and
\* the form is back, nothing under the key.
C38_Witness ==
    /\ page.accessState = "granted"
    /\ form.pc = "idle" /\ form.filled
    /\ form.sinkRequests = 1
    /\ ~form.isSubmitted /\ ~form.isSubmitting
    /\ browser.marker = NoMarker

\* ---------------------------------------------------------- PasswordGate
HASHED_PASSWORD == "QxK9#mPv$2nL@8wZ"
\* setTimeout(..., 500) of handleSubmit
GATE_DELAY == 500
\* (Date.now() - parseInt(lockoutTime)) < 60000
LOCKOUT_MS == 60000

\* What the visitor may have typed into the field.
Typed == {"", "guess", HASHED_PASSWORD}

isLockedOut(lockout, now) == lockout # None /\ now - lockout < LOCKOUT_MS

\* The component renders: the lockout screen or the form.
GateRender(g, now) ==
    [g EXCEPT !.screen = IF isLockedOut(g.lockout, now) THEN "lockout" ELSE "form"]

\* The callback of the timeout, with the password and the attempts of the
\* render in which the form was submitted.
GateVerdict(g, now) ==
    IF g.timer.password = HASHED_PASSWORD
    THEN [g EXCEPT !.adminAuth = TRUE, !.screen = "passed", !.wrongRun = 0,
                   !.isLoading = FALSE, !.timer = NoGateTimer]
    ELSE GateRender([g EXCEPT !.attempts = @ + 1,
                              !.lockout = IF g.timer.attempts >= 2 THEN now ELSE @,
                              !.wrongRun = IF @ < 3 THEN @ + 1 ELSE @,
                              !.isLoading = FALSE, !.timer = NoGateTimer], now)

\* The page with the gate is loaded: useState('') / (false) / (0), and the
\* first render. sessionStorage stays as it is.
GateMounts ==
    /\ gate.screen = "off"
    /\ gate' = GateRender(gate, clock)
    /\ UNCHANGED <<serverVars, lastCheck, page, init, browser, form, poll, sink, stale,
                   guard, form2>>

\* onChange of the input: setPassword, and a render.
GateTypes ==
    /\ gate.screen = "form"
    /\ \E p \in Typed : p # gate.password /\ gate' = GateRender([gate EXCEPT !.password = p], clock)
    /\ UNCHANGED <<serverVars, lastCheck, page, init, browser, form, poll, sink, stale,
                   guard, form2>>

\* The form is submitted (the button is disabled={isLoading || !password}):
\* handleSubmit sets isLoading and the timeout.
GateSubmit ==
    /\ gate.screen = "form"
    /\ ~gate.isLoading
    /\ gate.password # ""
    /\ gate' = GateRender([gate EXCEPT !.isLoading = TRUE,
                                       !.timer = [due |-> clock + GATE_DELAY,
                                                  password |-> gate.password,
                                                  attempts |-> gate.attempts]], clock)
    /\ UNCHANGED <<serverVars, lastCheck, page, init, browser, form, poll, sink, stale,
                   guard, form2>>

\* The timeout fires.
GateTimeout ==
    /\ gate.timer.due # None
    /\ clock >= gate.timer.due
    /\ gate' = GateVerdict(gate, clock)
    /\ UNCHANGED <<serverVars, lastCheck, page, init, browser, form, poll, sink, stale,
                   guard, form2>>

\* The visitor reloads the page: the component state and a pending timeout
\* are gone, sessionStorage is kept.
GateReload ==
    /\ gate.screen # "off"
    /\ gate' = [NoGate EXCEPT !.lockout = gate.lockout, !.adminAuth = gate.adminAuth,
                              !.wrongRun = gate.wrongRun]
    /\ UNCHANGED <<serverVars, lastCheck, page, init, browser, form, poll, sink, stale,
                   guard, form2>>

\* The times the gate is followed at: the start and the end of a lockout
\* stored at the start, each followed by up to MaxTicks timeout delays.
GateInstants == {b + GATE_DELAY * k : b \in {0, LOCKOUT_MS}, k \in 0..MaxTicks}

AdvanceGate ==
    /\ \E t \in GateInstants :
         /\ t > clock
         /\ \A u \in GateInstants : u > clock => t <= u
         /\ clock' = t
    /\ UNCHANGED <<ledger, req, resp, lastCheck, pageVars>>

\* The tab before the gate is loaded, with or without a lockout stored by an
\* earlier load.
InitGate ==
    /\ clock = 0
    /\ ledger = {}
    /\ req = [r \in PageSlots |-> NoReq]
    /\ resp = NoReq
    /\ lastCheck = NoCheck
    /\ page = Unmounted
    /\ init = FreshInit
    /\ browser = FreshBrowser("")
    /\ form = FreshForm
    /\ poll = FreshPoll
    /\ sink = NoSink
    /\ stale = NoStale
    /\ guard = NoGuard
    /\ form2 = NoSecond
    /\ \E l \in {None, 0} : gate = [NoGate EXCEPT !.lockout = l]

NextGate ==
    \/ GateMounts
    \/ GateTypes
    \/ GateSubmit
    \/ GateTimeout
    \/ GateReload
    \/ AdvanceGate

SpecGate == InitGate /\ [][NextGate]_vars

GateSubmitStep == ~gate.isLoading /\ gate'.isLoading
GateTimeoutStep == gate.timer.due # None /\ gate'.timer.due = None /\ gate'.screen # "off"
GateSuccessStep == gate.screen # "passed" /\ gate'.screen = "passed"

\* onSuccess is called only for a submission of the configured password;
\* while a stored lockout is younger than 60 seconds the gate shows the
\* lockout screen, takes no submission and does not call onSuccess.
GateOpensOnlyForPassword ==
    /\ GateSuccessStep => (GateTimeoutStep /\ gate.timer.password = HASHED_PASSWORD)
    /\ (isLockedOut(gate.lockout, clock) /\ gate.screen # "off") => gate.screen = "lockout"
    /\ isLockedOut(gate.lockout, clock) => (~GateSubmitStep /\ ~GateSuccessStep)

\* The lockout as far as it holds: a wrong submission stores the lockout
\* exactly when the page load it was made in had counted two wrong ones
\* before it.
GateLocksWithinOneLoad ==
    [][/\ GateOpensOnlyForPassword
       /\ (GateTimeoutStep /\ ~GateSuccessStep) =>
            (gate'.lockout = clock <=> gate.timer.attempts >= 2)
       /\ (GateTimeoutStep /\ ~GateSuccessStep /\ gate.timer.attempts < 2) =>
            gate'.lockout = gate.lockout]_vars

\* C39: PasswordGate calls onSuccess only for a submission of the configured
\* password; the third wrong submission in a row stores a lockout timestamp,
\* and for the 60 seconds after it every render shows the lockout screen, no
\* submission can be made and onSuccess is not called.
C39_LockoutAfterThirdWrong ==
    [][/\ GateOpensOnlyForPassword
       /\ (GateTimeoutStep /\ gate.wrongRun = 2 /\ gate'.wrongRun = 3) =>
            /\ gate'.lockout = clock
            /\ gate'.screen = "lockout"]_vars

\* The third wrong submission in a row has been answered, the two before it
\* in an earlier load of the page, and nothing is locked.
ThirdWrongNotLocked ==
    /\ gate.wrongRun = 3
    /\ gate.attempts = 1
    /\ gate.lockout = None
    /\ gate.screen = "form"

====
